---- MODULE Spec2Model ----
(***************************************************************************)
(* A model of qml/utils/alchemy.py: the element-similarity ("alchemical")  *)
(* matrix generator.  A caller prepares one request (the arguments of      *)
(* get_alchemy) and get_alchemy answers it: it returns the pair            *)
(* (doalchemy, pd) or ends with an exception.  Two further                 *)
(* specifications share the variables: UtilSpec, the helpers ceil,         *)
(* get_batch_size and get_pairs of qml/utils/utils.py, and KernelSpec, the *)
(* kernel entry points the tests call.                                     *)
(*                                                                         *)
(* Numbers.  A float of the program is a record [k, n]:                    *)
(*   [k |-> "int", n |-> z]   the float with the integer value z           *)
(*   [k |-> "exp", n |-> x]   the float exp(x/16), x # 0, a normal number  *)
(*                            (or a subnormal one that still tells         *)
(*                            neighbouring exponents apart)                *)
(*   [k |-> "sub", n |-> u]   the subnormal float u * 2^-1074 that exp     *)
(*                            rounds to just before it underflows          *)
(*   [k |-> "inf", n |-> 0]   +inf (exp overflow)                          *)
(* A bandwidth is held in thousandths (the default 0.001 is 1, 1.0 is      *)
(* 1000); the model draws bandwidths w with w*w dividing 4000000, so that  *)
(* every quotient d^2/(4*w^2) is a whole number of sixteenths and the      *)
(* argument of exp is exact.  The spin-like coordinate +-1/2 of QtNm is    *)
(* held doubled (+-1).                                                     *)
(***************************************************************************)
EXTENDS Integers, Sequences, FiniteSets, TLC

VARIABLES
  pc,    \* "call": the request is prepared; "done": the call has ended
         \* ("symmetric": the first of the two kernel calls has returned)
  args,  \* the arguments of the call
  exc,   \* the exception the call ended with, "none" while it has not
  ret,   \* << >>, or <<[doalchemy |-> .., pd |-> ..]>> once get_alchemy
         \* returned; the values returned so far, for the other calls
  stdout, \* the lines printed
  heap    \* the objects of a session by name ([name |-> value]): the
          \* module's tables, the caller's arrays and mappings, the array
          \* the last call made; << >> where one call alone is modelled

vars == <<pc, args, exc, ret, stdout, heap>>

(***************************************************************************)
(* Bounds of the model.                                                    *)
(***************************************************************************)
\* emax of the table-driven modes ranges up to TableMax + EmaxOver
EmaxOver == 1
\* emax of the custom mode ranges up to MaxCustomEmax
MaxCustomEmax == 3
\* number of entries of a custom elemental_vectors mapping
MaxVecs == 2
\* n_samples of get_batch_size ranges up to MaxSamples, batch_size one further
MaxSamples == 12
\* the operands of ceil range over -MaxOperand..MaxOperand
MaxOperand == 12
\* length of the list passed to get_pairs
MaxLen == 3
\* largest length of an axis of an array handed to the input checks
MaxDim == 2
\* largest number of elements of an array handed to check_classes
MaxCells == 2
\* number of calls of a session
MaxCalls == 2
\* largest emax of a call of a session
MaxSessionEmax == 2
\* atom axis of a padded representation
MaxAtoms == 2
\* number of molecules (or vectors) of a set handed to a kernel entry point
MaxMols == 2

(***************************************************************************)
(* The lookup tables, as the dict literals of the source: the items in     *)
(* source order, a later item with the same key replacing the earlier one. *)
(***************************************************************************)
PTP_items ==
  <<
    <<1, <<1, 1>>>>, <<2, <<1, 8>>>>, <<3, <<2, 1>>>>, <<4, <<2, 2>>>>, <<5, <<2, 3>>>>,
    <<6, <<2, 4>>>>, <<7, <<2, 5>>>>, <<8, <<2, 6>>>>, <<9, <<2, 7>>>>, <<10, <<2, 8>>>>,
    <<11, <<3, 1>>>>, <<12, <<3, 2>>>>, <<13, <<3, 3>>>>, <<14, <<3, 4>>>>, <<15, <<3, 5>>>>,
    <<16, <<3, 6>>>>, <<17, <<3, 7>>>>, <<18, <<3, 8>>>>, <<19, <<4, 1>>>>, <<20, <<4, 2>>>>,
    <<31, <<4, 3>>>>, <<32, <<4, 4>>>>, <<33, <<4, 5>>>>, <<34, <<4, 6>>>>, <<35, <<4, 7>>>>,
    <<36, <<4, 8>>>>, <<21, <<4, 9>>>>, <<22, <<4, 10>>>>, <<23, <<4, 11>>>>, <<24, <<4, 12>>>>,
    <<25, <<4, 13>>>>, <<26, <<4, 14>>>>, <<27, <<4, 15>>>>, <<28, <<4, 16>>>>, <<29, <<4, 17>>>>,
    <<30, <<4, 18>>>>, <<37, <<5, 1>>>>, <<38, <<5, 2>>>>, <<49, <<5, 3>>>>, <<50, <<5, 4>>>>,
    <<51, <<5, 5>>>>, <<52, <<5, 6>>>>, <<53, <<5, 7>>>>, <<54, <<5, 8>>>>, <<39, <<5, 9>>>>,
    <<40, <<5, 10>>>>, <<41, <<5, 11>>>>, <<42, <<5, 12>>>>, <<43, <<5, 13>>>>, <<44, <<5, 14>>>>,
    <<45, <<5, 15>>>>, <<46, <<5, 16>>>>, <<47, <<5, 17>>>>, <<48, <<5, 18>>>>, <<55, <<6, 1>>>>,
    <<56, <<6, 2>>>>, <<81, <<6, 3>>>>, <<82, <<6, 4>>>>, <<83, <<6, 5>>>>, <<84, <<6, 6>>>>,
    <<85, <<6, 7>>>>, <<86, <<6, 8>>>>, <<72, <<6, 10>>>>, <<73, <<6, 11>>>>, <<74, <<6, 12>>>>,
    <<75, <<6, 13>>>>, <<76, <<6, 14>>>>, <<77, <<6, 15>>>>, <<78, <<6, 16>>>>, <<79, <<6, 17>>>>,
    <<80, <<6, 18>>>>, <<57, <<6, 19>>>>, <<58, <<6, 20>>>>, <<59, <<6, 21>>>>, <<60, <<6, 22>>>>,
    <<61, <<6, 23>>>>, <<62, <<6, 24>>>>, <<63, <<6, 25>>>>, <<64, <<6, 26>>>>, <<65, <<6, 27>>>>,
    <<66, <<6, 28>>>>, <<67, <<6, 29>>>>, <<68, <<6, 30>>>>, <<69, <<6, 31>>>>, <<70, <<6, 32>>>>,
    <<71, <<6, 33>>>>, <<87, <<7, 1>>>>, <<88, <<7, 2>>>>, <<113, <<7, 3>>>>, <<114, <<7, 4>>>>,
    <<115, <<7, 5>>>>, <<116, <<7, 6>>>>, <<117, <<7, 7>>>>, <<118, <<7, 8>>>>, <<104, <<7, 10>>>>,
    <<105, <<7, 11>>>>, <<106, <<7, 12>>>>, <<107, <<7, 13>>>>, <<108, <<7, 14>>>>, <<109, <<7, 15>>>>,
    <<110, <<7, 16>>>>, <<111, <<7, 17>>>>, <<112, <<7, 18>>>>, <<89, <<7, 19>>>>, <<90, <<7, 20>>>>,
    <<91, <<7, 21>>>>, <<92, <<7, 22>>>>, <<93, <<7, 23>>>>, <<94, <<7, 24>>>>, <<95, <<7, 25>>>>,
    <<96, <<7, 26>>>>, <<97, <<7, 27>>>>, <<98, <<7, 28>>>>, <<99, <<7, 29>>>>, <<100, <<7, 30>>>>,
    <<101, <<7, 31>>>>, <<101, <<7, 32>>>>, <<102, <<7, 14>>>>, <<103, <<7, 33>>>>
  >>

QtNm_items ==
  <<
    <<1, <<1, 0, 0, 1>>>>, <<2, <<1, 0, 0, -1>>>>, <<3, <<2, 0, 0, 1>>>>, <<4, <<2, 0, 0, -1>>>>, <<5, <<2, -1, 1, 1>>>>,
    <<6, <<2, 0, 1, 1>>>>, <<7, <<2, 1, 1, 1>>>>, <<8, <<2, -1, 1, -1>>>>, <<9, <<2, 0, 1, -1>>>>, <<10, <<2, 1, 1, -1>>>>,
    <<11, <<3, 0, 0, 1>>>>, <<12, <<3, 0, 0, -1>>>>, <<13, <<3, -1, 1, 1>>>>, <<14, <<3, 0, 1, 1>>>>, <<15, <<3, 1, 1, 1>>>>,
    <<16, <<3, -1, 1, -1>>>>, <<17, <<3, 0, 1, -1>>>>, <<18, <<3, 1, 1, -1>>>>, <<19, <<4, 0, 0, 1>>>>, <<20, <<4, 0, 0, -1>>>>,
    <<31, <<4, -1, 2, 1>>>>, <<32, <<4, 0, 1, 1>>>>, <<33, <<4, 1, 1, 1>>>>, <<34, <<4, -1, 1, -1>>>>, <<35, <<4, 0, 1, -1>>>>,
    <<36, <<4, 1, 1, -1>>>>, <<21, <<4, -2, 2, 1>>>>, <<22, <<4, -1, 2, 1>>>>, <<23, <<4, 0, 2, 1>>>>, <<24, <<4, 1, 2, 1>>>>,
    <<25, <<4, 2, 2, 1>>>>, <<26, <<4, -2, 2, -1>>>>, <<27, <<4, -1, 2, -1>>>>, <<28, <<4, 0, 2, -1>>>>, <<29, <<4, 1, 2, -1>>>>,
    <<30, <<4, 2, 2, -1>>>>, <<37, <<5, 0, 0, 1>>>>, <<38, <<5, 0, 0, -1>>>>, <<49, <<5, -1, 1, 1>>>>, <<50, <<5, 0, 1, 1>>>>,
    <<51, <<5, 1, 1, 1>>>>, <<52, <<5, -1, 1, -1>>>>, <<53, <<5, 0, 1, -1>>>>, <<54, <<5, 1, 1, -1>>>>, <<39, <<5, -2, 2, 1>>>>,
    <<40, <<5, -1, 2, 1>>>>, <<41, <<5, 0, 2, 1>>>>, <<42, <<5, 1, 2, 1>>>>, <<43, <<5, 2, 2, 1>>>>, <<44, <<5, -2, 2, -1>>>>,
    <<45, <<5, -1, 2, -1>>>>, <<46, <<5, 0, 2, -1>>>>, <<47, <<5, 1, 2, -1>>>>, <<48, <<5, 2, 2, -1>>>>, <<55, <<6, 0, 0, 1>>>>,
    <<56, <<6, 0, 0, -1>>>>, <<81, <<6, -1, 1, 1>>>>, <<82, <<6, 0, 1, 1>>>>, <<83, <<6, 1, 1, 1>>>>, <<84, <<6, -1, 1, -1>>>>,
    <<85, <<6, 0, 1, -1>>>>, <<86, <<6, 1, 1, -1>>>>, <<71, <<6, -2, 2, 1>>>>, <<72, <<6, -1, 2, 1>>>>, <<73, <<6, 0, 2, 1>>>>,
    <<74, <<6, 1, 2, 1>>>>, <<75, <<6, 2, 2, 1>>>>, <<76, <<6, -2, 2, -1>>>>, <<77, <<6, -1, 2, -1>>>>, <<78, <<6, 0, 2, -1>>>>,
    <<79, <<6, 1, 2, -1>>>>, <<80, <<6, 2, 2, -1>>>>, <<57, <<6, -3, 3, 1>>>>, <<58, <<6, -2, 3, 1>>>>, <<59, <<6, -1, 3, 1>>>>,
    <<60, <<6, 0, 3, 1>>>>, <<61, <<6, 1, 3, 1>>>>, <<62, <<6, 2, 3, 1>>>>, <<63, <<6, 3, 3, 1>>>>, <<64, <<6, -3, 3, -1>>>>,
    <<65, <<6, -2, 3, -1>>>>, <<66, <<6, -1, 3, -1>>>>, <<67, <<6, 0, 3, -1>>>>, <<68, <<6, 1, 3, -1>>>>, <<69, <<6, 2, 3, -1>>>>,
    <<70, <<6, 3, 3, -1>>>>, <<87, <<7, 0, 0, 1>>>>, <<88, <<7, 0, 0, -1>>>>, <<113, <<7, -1, 1, 1>>>>, <<114, <<7, 0, 1, 1>>>>,
    <<115, <<7, 1, 1, 1>>>>, <<116, <<7, -1, 1, -1>>>>, <<117, <<7, 0, 1, -1>>>>, <<118, <<7, 1, 1, -1>>>>, <<103, <<7, -2, 2, 1>>>>,
    <<104, <<7, -1, 2, 1>>>>, <<105, <<7, 0, 2, 1>>>>, <<106, <<7, 1, 2, 1>>>>, <<107, <<7, 2, 2, 1>>>>, <<108, <<7, -2, 2, -1>>>>,
    <<109, <<7, -1, 2, -1>>>>, <<110, <<7, 0, 2, -1>>>>, <<111, <<7, 1, 2, -1>>>>, <<112, <<7, 2, 2, -1>>>>, <<89, <<7, -3, 3, 1>>>>,
    <<90, <<7, -2, 3, 1>>>>, <<91, <<7, -1, 3, 1>>>>, <<92, <<7, 0, 3, 1>>>>, <<93, <<7, 1, 3, 1>>>>, <<94, <<7, 2, 3, 1>>>>,
    <<95, <<7, 3, 3, 1>>>>, <<96, <<7, -3, 3, -1>>>>, <<97, <<7, -2, 3, -1>>>>, <<98, <<7, -1, 3, -1>>>>, <<99, <<7, 0, 3, -1>>>>,
    <<100, <<7, 1, 3, -1>>>>, <<101, <<7, 2, 3, -1>>>>, <<102, <<7, 3, 3, -1>>>>
  >>


\* A dict literal: the keys of the items, each with the value of its last item.
\* a variant in which the first of two items with the same key stays
DictLiteral_first(items) ==
  [key \in {items[i][1] : i \in 1..Len(items)} |->
     items[CHOOSE i \in 1..Len(items) :
             /\ items[i][1] = key
             /\ \A j \in 1..(i - 1) : items[j][1] # key][2]]

DictLiteral(items) ==
  [key \in {items[i][1] : i \in 1..Len(items)} |->
     items[CHOOSE i \in 1..Len(items) :
             /\ items[i][1] = key
             /\ \A j \in (i+1)..Len(items) : items[j][1] # key][2]]

PTP == DictLiteral(PTP_items)

\* a variant of the table that stops one element short
PTP_keys_short == (DOMAIN PTP) \ {118}

PTP_keys == DOMAIN PTP

QtNm == DictLiteral(QtNm_items)

QtNm_keys == DOMAIN QtNm

\* the largest atomic number of the tables
LastElement == 118

(***************************************************************************)
(* Floats.                                                                 *)
(***************************************************************************)
Flt(z) == [k |-> "int", n |-> z]

\* exp(-x) is 0.0 from x = 745.1875 on (in sixteenths)
Underflow16 == 11923
\* exp(-x) loses neighbouring sixteenths to subnormal rounding from x = 742 on
Subnormal16 == 11872
\* exp(x) is +inf from x = 709.8125 on (in sixteenths)
Overflow16 == 11357

\* exp(-x) in units of 2^-1074 for x = 742, 742 + 1/16, ..., 745.125
SubnormalUnits ==
  << 11, 11, 10, 10, 9, 8, 8, 7, 7, 7, 6, 6, 5, 5, 5, 4, 4, 4, 4, 3,
     3, 3, 3, 3, 3, 2, 2, 2, 2, 2, 2, 2, 2, 1, 1, 1, 1, 1, 1, 1,
     1, 1, 1, 1, 1, 1, 1, 1, 1, 1, 1 >>

\* np.exp(x16 / 16)
np_exp16(x16) ==
  IF x16 = 0 THEN Flt(1)
  ELSE IF x16 >= Overflow16 THEN [k |-> "inf", n |-> 0]
  ELSE IF x16 <= -Underflow16 THEN Flt(0)
  ELSE IF x16 <= -Subnormal16
       THEN [k |-> "sub", n |-> SubnormalUnits[(-x16) - Subnormal16 + 1]]
  ELSE [k |-> "exp", n |-> x16]

\* d2 / (4 * width**2) in sixteenths, d2 >= 0 an integer and width # 0 in
\* thousandths; a quotient of Underflow16 or more is held as Underflow16
\* (exp of its negation is 0.0 whatever is added to it).
Quot16(d2, width) ==
  LET c == 4000000 \div (width * width)
  IN  IF d2 = 0 THEN 0
      ELSE IF c >= Underflow16 \/ d2 >= Underflow16 \/ d2 * c >= Underflow16
           THEN Underflow16
      ELSE d2 * c

(***************************************************************************)
(* Results of a call: a value, or the exception it raised.                 *)
(***************************************************************************)
NoArray == [shape |-> <<0, 0>>, data |-> << >>]

\* out: the lines the call printed
Return(v) == [exc |-> "none", val |-> v, out |-> << >>]

Raise(e) == [exc |-> e, val |-> NoArray, out |-> << >>]

\* Python numbers passed as emax: the int v, or the float v + 0.5
PyInt(v) == [v |-> v, half |-> FALSE]

PyHalf(v) == [v |-> v, half |-> TRUE]

\* An array of shape (rows, cols) with the cells cell[i][j], 0-based.
Array(rows, cols, cell) == [shape |-> <<rows, cols>>, data |-> cell]

\* np.zeros((rows, cols)): the dimensions must be integers and not negative
np_zeros(rows, cols) ==
  IF rows.half \/ cols.half THEN Raise("TypeError")
  ELSE IF rows.v < 0 \/ cols.v < 0 THEN Raise("ValueError")
  ELSE Return(Array(rows.v, cols.v,
                    [i \in 0..(rows.v - 1) |-> [j \in 0..(cols.v - 1) |-> Flt(0)]]))

\* a variant that leaves the diagonal at zero
np_eye_zeros(n) ==
  IF n.half THEN Raise("TypeError")
  ELSE IF n.v < 0 THEN Raise("ValueError")
  ELSE Return(Array(n.v, n.v, [i \in 0..(n.v - 1) |-> [j \in 0..(n.v - 1) |-> Flt(0)]]))

\* np.eye(n)
np_eye(n) ==
  IF n.half THEN Raise("TypeError")
  ELSE IF n.v < 0 THEN Raise("ValueError")
  ELSE Return(Array(n.v, n.v,
                    [i \in 0..(n.v - 1) |->
                       [j \in 0..(n.v - 1) |-> IF i = j THEN Flt(1) ELSE Flt(0)]]))

\* The double loop
\*     for i in range(emax):
\*         for j in range(emax):
\*             pd[i,j] = f(i+1, j+1)
\* over the zero matrix pd.  raises[a, b] is the exception the call f(a, b)
\* ends with ("none": it returns) and value[a, b] what it returns.  The
\* exception of the first call that raised, in row-major order of (i, j),
\* ends the loop.
FirstRaised(emax, raises) ==
  LET rows == {i \in 0..(emax - 1) : \E j \in 0..(emax - 1) : raises[i + 1, j + 1] # "none"}
  IN  IF rows = {} THEN "none"
      ELSE LET i == CHOOSE r \in rows : \A q \in rows : r <= q
               cols == {j \in 0..(emax - 1) : raises[i + 1, j + 1] # "none"}
               j == CHOOSE c \in cols : \A q \in cols : c <= q
           IN  raises[i + 1, j + 1]

\* a variant that fills the upper triangle only and does not mirror it
FillLoop_upper(emax, raises, value) ==
  LET e == FirstRaised(emax, raises)
  IN  IF e # "none" THEN Raise(e)
      ELSE Return(Array(emax, emax,
                        [i \in 0..(emax - 1) |->
                           [j \in 0..(emax - 1) |->
                              IF j >= i THEN value[i + 1, j + 1] ELSE Flt(0)]]))

FillLoop(emax, raises, value) ==
  LET e == FirstRaised(emax, raises)
  IN  IF e # "none" THEN Raise(e)
      ELSE Return(Array(emax, emax,
                        [i \in 0..(emax - 1) |->
                           [j \in 0..(emax - 1) |-> value[i + 1, j + 1]]]))

(***************************************************************************)
(* periodic-table mode                                                     *)
(***************************************************************************)
\* The exception periodic_distance(a, b, r_width, c_width) ends with: the
\* four table lookups come first, the two divisions after them.
periodic_distance_raises(a, b, r_width, c_width) ==
  IF a \notin PTP_keys \/ b \notin PTP_keys THEN "KeyError"
  ELSE IF r_width = 0 \/ c_width = 0 THEN "ZeroDivisionError"
  ELSE "none"

\* a variant that loses the minus signs of the exponent
periodic_distance_sign(a, b, r_width, c_width) ==
  LET ra == PTP[a][1]
      rb == PTP[b][1]
      ca == PTP[a][2]
      cb == PTP[b][2]
  IN  np_exp16(Quot16((ra - rb) * (ra - rb), r_width)
               + Quot16((ca - cb) * (ca - cb), c_width))

\* a variant that scales the period difference by c_width and the group
\* difference by r_width
periodic_distance_swapped(a, b, r_width, c_width) ==
  LET ra == PTP[a][1]
      rb == PTP[b][1]
      ca == PTP[a][2]
      cb == PTP[b][2]
  IN  np_exp16(- Quot16((ra - rb) * (ra - rb), c_width)
               - Quot16((ca - cb) * (ca - cb), r_width))

\* What periodic_distance(a, b, r_width, c_width) returns.
periodic_distance(a, b, r_width, c_width) ==
  LET ra == PTP[a][1]
      rb == PTP[b][1]
      ca == PTP[a][2]
      cb == PTP[b][2]
  IN  np_exp16(- Quot16((ra - rb) * (ra - rb), r_width)
               - Quot16((ca - cb) * (ca - cb), c_width))

gen_pd(emax, r_width, c_width) ==
  LET pd == np_zeros(emax, emax)
      raises == [a \in 1..emax.v, b \in 1..emax.v |->
                   periodic_distance_raises(a, b, r_width, c_width)]
      value == [a \in 1..emax.v, b \in 1..emax.v |->
                  periodic_distance(a, b, r_width, c_width)]
  IN  IF pd.exc # "none" THEN pd ELSE FillLoop(emax.v, raises, value)

(***************************************************************************)
(* quantum-numbers mode                                                    *)
(***************************************************************************)
\* The exception QNum_distance(a, b, ...) ends with: the eight table lookups
\* come first, the four divisions after them.
QNum_distance_raises(a, b, n_width, m_width, l_width, s_width) ==
  IF a \notin QtNm_keys \/ b \notin QtNm_keys THEN "KeyError"
  ELSE IF n_width = 0 \/ m_width = 0 \/ l_width = 0 \/ s_width = 0
       THEN "ZeroDivisionError"
  ELSE "none"

\* a variant that scales the second coordinate by l_width and the third by
\* m_width
QNum_distance_swapped(a, b, n_width, m_width, l_width, s_width) ==
  LET na == QtNm[a][1]
      nb == QtNm[b][1]
      ma == QtNm[a][2]
      mb == QtNm[b][2]
      la == QtNm[a][3]
      lb == QtNm[b][3]
      ds == (QtNm[a][4] - QtNm[b][4]) \div 2
  IN  np_exp16(- Quot16((na - nb) * (na - nb), n_width)
               - Quot16((ma - mb) * (ma - mb), l_width)
               - Quot16((la - lb) * (la - lb), m_width)
               - Quot16(ds * ds, s_width))

\* What QNum_distance(a, b, ...) returns.  The fourth coordinate is held
\* doubled, so sa - sb is half the difference of the table's entries.
QNum_distance(a, b, n_width, m_width, l_width, s_width) ==
  LET na == QtNm[a][1]
      nb == QtNm[b][1]
      ma == QtNm[a][2]
      mb == QtNm[b][2]
      la == QtNm[a][3]
      lb == QtNm[b][3]
      ds == (QtNm[a][4] - QtNm[b][4]) \div 2
  IN  np_exp16(- Quot16((na - nb) * (na - nb), n_width)
               - Quot16((ma - mb) * (ma - mb), m_width)
               - Quot16((la - lb) * (la - lb), l_width)
               - Quot16(ds * ds, s_width))

gen_QNum_distances(emax, n_width, m_width, l_width, s_width) ==
  LET pd == np_zeros(emax, emax)
      raises == [a \in 1..emax.v, b \in 1..emax.v |->
                   QNum_distance_raises(a, b, n_width, m_width, l_width, s_width)]
      value == [a \in 1..emax.v, b \in 1..emax.v |->
                  QNum_distance(a, b, n_width, m_width, l_width, s_width)]
  IN  IF pd.exc # "none" THEN pd ELSE FillLoop(emax.v, raises, value)

(***************************************************************************)
(* custom mode.  e_vec is a dict: the sequence of its items                *)
(* [key |-> k, isint |-> b, vec |-> v] in insertion order, the keys        *)
(* distinct; isint tells whether isinstance(k, int) holds.                 *)
(***************************************************************************)
\* a variant that accepts any number of distinct lengths
check_if_unique_any(iterator) ==
  Cardinality({iterator[i] : i \in 1..Len(iterator)}) >= 1

check_if_unique(iterator) ==
  Cardinality({iterator[i] : i \in 1..Len(iterator)}) = 1

\* np.dot(u, v) of two vectors of one length
RECURSIVE DotUpTo(_, _, _)
DotUpTo(u, v, k) ==
  IF k = 0 THEN 0 ELSE DotUpTo(u, v, k - 1) + u[k] * v[k]

\* The rows of tmp after "for k,v in e_vec.items(): tmp[k,:] = copy(v)":
\* a key k in -emax..emax-1 writes row k (a negative k counts from the end),
\* a later item replaces what an earlier one wrote to the same row.
RowIndex(k, emax) == IF k < 0 THEN k + emax ELSE k

\* "tmp[k,:] = copy(v)" needs a row k of tmp and a v as long as the row, or
\* of length 1 (numpy then repeats its one entry along the row).
SetRowRaises(item, emax, width) ==
  IF item.key >= emax \/ item.key < - emax THEN "IndexError"
  ELSE IF Len(item.vec) # width /\ Len(item.vec) # 1 THEN "ValueError"
  ELSE "none"

Broadcast(v, width) == IF Len(v) = width THEN v ELSE [c \in 1..width |-> v[1]]

TmpRow(e_vec, emax, width, r) ==
  LET writers == {i \in 1..Len(e_vec) : RowIndex(e_vec[i].key, emax) = r}
  IN  IF writers = {} THEN [c \in 1..width |-> 0]
      ELSE Broadcast(e_vec[CHOOSE i \in writers : \A q \in writers : q <= i].vec, width)

gen_custom(e_vec, emax) ==
  IF \E i \in 1..Len(e_vec) : ~ e_vec[i].isint
     THEN Raise("AssertionError: Error! Keys need to be int")
  ELSE LET num_dims == [i \in 1..Len(e_vec) |-> Len(e_vec[i].vec)]
       IN  IF ~ check_if_unique(num_dims)
              THEN Raise("AssertionError: Error! Unequal number of dimensions")
           ELSE LET tmp == np_zeros(emax, PyInt(num_dims[1]))
                    bad == {i \in 1..Len(e_vec) :
                              SetRowRaises(e_vec[i], emax.v, num_dims[1]) # "none"}
                IN  IF tmp.exc # "none" THEN tmp
                    ELSE IF bad # {}
                            THEN Raise(SetRowRaises(
                                   e_vec[CHOOSE i \in bad : \A q \in bad : i <= q],
                                   emax.v, num_dims[1]))
                    ELSE Return(Array(emax.v, emax.v,
                           [i \in 0..(emax.v - 1) |->
                              [j \in 0..(emax.v - 1) |->
                                 Flt(DotUpTo(TmpRow(e_vec, emax.v, num_dims[1], i),
                                             TmpRow(e_vec, emax.v, num_dims[1], j),
                                             num_dims[1]))]]))

(***************************************************************************)
(* get_alchemy.  The argument alchemy is a string, an np.ndarray or (any   *)
(* other object) a list: [kind, s, m], s the string and m the array.       *)
(***************************************************************************)
Str(s) == [kind |-> "str", s |-> s, m |-> NoArray]

NdArray(m) == [kind |-> "ndarray", s |-> "", m |-> m]

List(m) == [kind |-> "list", s |-> "", m |-> m]

\* alchemy == s, s a string
EqStr(alchemy, s) == alchemy.kind = "str" /\ alchemy.s = s

\* the pair (doalchemy, pd) of a return statement
Pair(doalchemy, pd) == [doalchemy |-> doalchemy, pd |-> pd]

\* "return doalchemy, pd", pd computed by a call that may have raised
ReturnWith(doalchemy, pd) ==
  IF pd.exc # "none" THEN pd ELSE Return(Pair(doalchemy, pd.val))

\* the defaults of get_alchemy's parameters: emax=100, every width 0.001
DefaultEmax == 100

DefaultWidth == 1

\* np.identity(n), n >= 0: the identity matrix a caller passes as a raw array
np_identity(n) ==
  Array(n, n, [i \in 0..(n - 1) |->
                 [j \in 0..(n - 1) |-> IF j = i THEN Flt(1) ELSE Flt(0)]])

\* a variant that falls back to the "off" mode with the default emax
UnknownMethod_default(alchemy) == Return(Pair(FALSE, np_identity(DefaultEmax)))

\* the decimal numeral of a natural number, as str and "%s" write it
RECURSIVE Numeral(_)
Numeral(n) ==
  IF n < 10 THEN <<"0", "1", "2", "3", "4", "5", "6", "7", "8", "9">>[n + 1]
  ELSE Numeral(n \div 10) \o Numeral(n % 10)

\* repr of a float that is a whole number: 1.0, -2.0
ReprFloat(f) ==
  CASE f.k = "int" ->
         (IF f.n < 0 THEN "-" \o Numeral(- f.n) ELSE Numeral(f.n)) \o ".0"

\* the reprs of the cells row[0], ..., row[n - 1], joined by ", "
RECURSIVE ReprCells(_, _)
ReprCells(row, n) ==
  IF n = 0 THEN ""
  ELSE IF n = 1 THEN ReprFloat(row[0])
  ELSE ReprCells(row, n - 1) \o ", " \o ReprFloat(row[n - 1])

\* the reprs of the rows m[0], ..., m[n - 1] of a list of lists, joined
RECURSIVE ReprRows(_, _)
ReprRows(m, n) ==
  IF n = 0 THEN ""
  ELSE (IF n = 1 THEN "" ELSE ReprRows(m, n - 1) \o ", ")
         \o "[" \o ReprCells(m.data[n - 1], m.shape[2]) \o "]"

\* str(alchemy) as print writes it: the string itself, the repr of a list
\* of lists of floats
Printed(alchemy) ==
  IF alchemy.kind = "str" THEN alchemy.s
  ELSE "[" \o ReprRows(alchemy.m, alchemy.m.shape[1]) \o "]"

\* the else branch: print the error and the value of alchemy, separated by
\* a space, and exit(1)
UnknownMethod(alchemy) ==
  [exc |-> "SystemExit", val |-> NoArray,
   out |-> <<"QML ERROR: Unknown alchemical method specified:" \o " "
               \o Printed(alchemy)>>]

\* a variant whose raw-array branch switches the weighting off
get_alchemy_raw_flag_off(alchemy, emax, r_width, c_width, elemental_vectors, n_width, m_width, l_width, s_width) ==
  IF alchemy.kind = "ndarray" THEN Return(Pair(FALSE, alchemy.m))
  ELSE IF EqStr(alchemy, "off") THEN ReturnWith(FALSE, np_eye(emax))
  ELSE IF EqStr(alchemy, "periodic-table")
       THEN ReturnWith(TRUE, gen_pd(emax, r_width, c_width))
  ELSE IF EqStr(alchemy, "quantum-numbers")
       THEN ReturnWith(TRUE, gen_QNum_distances(emax, n_width, m_width,
                                                 l_width, s_width))
  ELSE IF EqStr(alchemy, "custom")
       THEN ReturnWith(TRUE, gen_custom(elemental_vectors, emax))
  ELSE UnknownMethod(alchemy)

\* a variant that accepts a raw array only when its shape is (emax, emax)
get_alchemy_raw_checked(alchemy, emax, r_width, c_width, elemental_vectors, n_width, m_width, l_width, s_width) ==
  IF alchemy.kind = "ndarray"
     THEN IF ~ emax.half /\ alchemy.m.shape = <<emax.v, emax.v>>
             THEN Return(Pair(TRUE, alchemy.m))
             ELSE UnknownMethod(alchemy)
  ELSE IF EqStr(alchemy, "off") THEN ReturnWith(FALSE, np_eye(emax))
  ELSE IF EqStr(alchemy, "periodic-table")
       THEN ReturnWith(TRUE, gen_pd(emax, r_width, c_width))
  ELSE IF EqStr(alchemy, "quantum-numbers")
       THEN ReturnWith(TRUE, gen_QNum_distances(emax, n_width, m_width,
                                                 l_width, s_width))
  ELSE IF EqStr(alchemy, "custom")
       THEN ReturnWith(TRUE, gen_custom(elemental_vectors, emax))
  ELSE UnknownMethod(alchemy)

\* a variant that hands the two bandwidths to gen_pd in the other order
get_alchemy_widths_swapped(alchemy, emax, r_width, c_width, elemental_vectors, n_width, m_width, l_width, s_width) ==
  IF alchemy.kind = "ndarray" THEN Return(Pair(TRUE, alchemy.m))
  ELSE IF EqStr(alchemy, "off") THEN ReturnWith(FALSE, np_eye(emax))
  ELSE IF EqStr(alchemy, "periodic-table")
       THEN ReturnWith(TRUE, gen_pd(emax, c_width, r_width))
  ELSE IF EqStr(alchemy, "quantum-numbers")
       THEN ReturnWith(TRUE, gen_QNum_distances(emax, n_width, m_width,
                                                 l_width, s_width))
  ELSE IF EqStr(alchemy, "custom")
       THEN ReturnWith(TRUE, gen_custom(elemental_vectors, emax))
  ELSE UnknownMethod(alchemy)

get_alchemy(alchemy, emax, r_width, c_width, elemental_vectors, n_width, m_width, l_width, s_width) ==
  IF alchemy.kind = "ndarray" THEN Return(Pair(TRUE, alchemy.m))
  ELSE IF EqStr(alchemy, "off") THEN ReturnWith(FALSE, np_eye(emax))
  ELSE IF EqStr(alchemy, "periodic-table")
       THEN ReturnWith(TRUE, gen_pd(emax, r_width, c_width))
  ELSE IF EqStr(alchemy, "quantum-numbers")
       THEN ReturnWith(TRUE, gen_QNum_distances(emax, n_width, m_width,
                                                 l_width, s_width))
  ELSE IF EqStr(alchemy, "custom")
       THEN ReturnWith(TRUE, gen_custom(elemental_vectors, emax))
  ELSE UnknownMethod(alchemy)

(***************************************************************************)
(* The requests of the model.                                              *)
(***************************************************************************)
\* a call get_alchemy(alchemy, emax=..., ...)
Request(alchemy, emax, r_width, c_width, elemental_vectors, n_width, m_width, l_width, s_width) ==
  [alchemy |-> alchemy, emax |-> emax, r_width |-> r_width, c_width |-> c_width,
   elemental_vectors |-> elemental_vectors, n_width |-> n_width,
   m_width |-> m_width, l_width |-> l_width, s_width |-> s_width]

\* a call that passes alchemy and emax and leaves the rest at its default
Plain(alchemy, emax) ==
  Request(alchemy, emax, DefaultWidth, DefaultWidth, << >>,
          DefaultWidth, DefaultWidth, DefaultWidth, DefaultWidth)

\* bandwidths: -1.0, 0, 0.001, 1.0, 2.0
WidthInputs == {-1000, 0, 1, 1000, 2000}

PositiveWidths == {w \in WidthInputs : w > 0}

\* emax: every integer from -1 to past the end of the tables, and 2.5
EmaxInputs == {PyInt(v) : v \in (-1)..(LastElement + EmaxOver)} \cup {PyHalf(2)}

\* emax of the requests that vary the bandwidths
EmaxFew == {PyInt(0), PyInt(3), PyInt(LastElement)}

PeriodicRequests ==
  {Request(Str("periodic-table"), e, w[1], w[2], << >>,
           DefaultWidth, DefaultWidth, DefaultWidth, DefaultWidth) :
     e \in EmaxInputs, w \in {<<DefaultWidth, DefaultWidth>>, <<1000, 2000>>}}
  \cup
  {Request(Str("periodic-table"), e, r, c, << >>,
           DefaultWidth, DefaultWidth, DefaultWidth, DefaultWidth) :
     e \in EmaxFew, r \in WidthInputs, c \in WidthInputs}

\* the four bandwidths of the quantum-numbers mode: the defaults, every
\* choice among 1.0 and 2.0, and 1.0 with one bandwidth of any kind
QNumWidths ==
  {<<DefaultWidth, DefaultWidth, DefaultWidth, DefaultWidth>>}
  \cup ({1000, 2000} \X {1000, 2000} \X {1000, 2000} \X {1000, 2000})
  \cup {[<<1000, 1000, 1000, 1000>> EXCEPT ![p] = w] : p \in 1..4, w \in WidthInputs}

QNumRequests ==
  {Request(Str("quantum-numbers"), e, DefaultWidth, DefaultWidth, << >>,
           w[1], w[2], w[3], w[4]) :
     e \in EmaxInputs,
     w \in {<<DefaultWidth, DefaultWidth, DefaultWidth, DefaultWidth>>,
            <<2000, 1000, 1000, 2000>>}}
  \cup
  {Request(Str("quantum-numbers"), e, DefaultWidth, DefaultWidth, << >>,
           w[1], w[2], w[3], w[4]) : e \in EmaxFew, w \in QNumWidths}

\* custom mode: dicts of at most MaxVecs items with distinct keys
KeyInputs == (-2)..MaxCustomEmax

VecInputs == {<< >>, <<1>>, <<2>>, <<1, 2>>}

ItemInputs ==
  [key : KeyInputs, isint : {TRUE}, vec : VecInputs]
  \cup [key : {0}, isint : {FALSE}, vec : VecInputs]

DictInputs ==
  UNION {{d \in [1..n -> ItemInputs] :
            \A i, j \in 1..n : i # j =>
               \/ d[i].key # d[j].key
               \/ d[i].isint # d[j].isint} : n \in 0..MaxVecs}

CustomEmaxInputs == {PyInt(v) : v \in (-1)..MaxCustomEmax} \cup {PyHalf(2)}

CustomRequests ==
  {Request(Str("custom"), e, DefaultWidth, DefaultWidth, d,
           DefaultWidth, DefaultWidth, DefaultWidth, DefaultWidth) :
     e \in CustomEmaxInputs, d \in DictInputs}

\* raw arrays: the identity of every size, and every 2 x 2 array of 0, 1, 2
SmallArrays ==
  {Array(2, 2, [i \in 0..1 |-> [j \in 0..1 |-> Flt(c[2 * i + j + 1])]]) :
     c \in {0, 1, 2} \X {0, 1, 2} \X {0, 1, 2} \X {0, 1, 2}}

RawRequests ==
  {Plain(NdArray(np_identity(n)), PyInt(DefaultEmax)) :
     n \in 0..(LastElement + EmaxOver)}
  \cup {Plain(NdArray(m), e) : m \in SmallArrays, e \in {PyInt(2), PyInt(DefaultEmax)}}

\* raw arrays (square or not, symmetric or not) with every other argument
\* varied, valid or not: emax, the bandwidths, elemental_vectors
RawArrays ==
  {np_identity(2), np_identity(3),
   Array(2, 2, [i \in 0..1 |-> [j \in 0..1 |-> Flt(2 * i + j)]]),
   Array(1, 2, [i \in 0..0 |-> [j \in 0..1 |-> Flt(j + 1)]])}

RawVectors ==
  {<< >>,
   <<[key |-> 1, isint |-> TRUE, vec |-> <<1>>],
     [key |-> 2, isint |-> TRUE, vec |-> <<1, 2>>]>>}

RawFrameRequests ==
  {Request(NdArray(m), e, w, w, d, w, w, w, w) :
     m \in RawArrays, e \in CustomEmaxInputs, w \in WidthInputs, d \in RawVectors}

OffRequests == {Plain(Str("off"), e) : e \in EmaxInputs}

\* anything else: a misspelt mode, the empty string, a list
UnknownRequests ==
  {Plain(a, e) :
     a \in {Str("Off"), Str("periodic_table"), Str(""), Str("none"),
            List(np_identity(2))},
     e \in {PyInt(2), PyInt(DefaultEmax)}}

Requests ==
  OffRequests \cup PeriodicRequests \cup QNumRequests \cup CustomRequests
  \cup RawRequests \cup RawFrameRequests \cup UnknownRequests

(***************************************************************************)
(* The state machine: a prepared call, then its end.                       *)
(***************************************************************************)
Init ==
  /\ pc = "call"
  /\ args \in Requests
  /\ exc = "none"
  /\ ret = << >>
  /\ stdout = << >>
  /\ heap = << >>

GetAlchemy ==
  /\ pc = "call"
  /\ LET r == get_alchemy(args.alchemy, args.emax, args.r_width, args.c_width,
                          args.elemental_vectors, args.n_width, args.m_width,
                          args.l_width, args.s_width)
     IN  /\ exc' = r.exc
         /\ ret' = IF r.exc = "none" THEN <<r.val>> ELSE << >>
         /\ stdout' = stdout \o r.out
  /\ pc' = "done"
  /\ UNCHANGED <<args, heap>>

Next == GetAlchemy

Spec == Init /\ [][Next]_vars

(***************************************************************************)
(* A session: a process that has imported the module and calls             *)
(* get_alchemy several times, handing it objects of its own and changing   *)
(* them in place between the calls.  heap holds the objects by name, and   *)
(* a returned matrix is the name of an object.                             *)
(***************************************************************************)
ELEMENT_NAME_items ==
  <<<<1, "H">>, <<2, "He">>, <<3, "Li">>, <<4, "Be">>, <<5, "B">>, <<6, "C">>,
    <<7, "N">>, <<8, "O">>, <<9, "F">>, <<10, "Ne">>, <<11, "Na">>,
    <<12, "Mg">>, <<13, "Al">>, <<14, "Si">>, <<15, "P">>, <<16, "S">>,
    <<17, "Cl">>, <<18, "Ar">>, <<19, "K">>, <<20, "Ca">>, <<21, "Sc">>,
    <<22, "Ti">>, <<23, "V">>, <<24, "Cr">>, <<25, "Mn">>, <<26, "Fe">>,
    <<27, "Co">>, <<28, "Ni">>, <<29, "Cu">>, <<30, "Zn">>, <<31, "Ga">>,
    <<32, "Ge">>, <<33, "As">>, <<34, "Se">>, <<35, "Br">>, <<36, "Kr">>,
    <<37, "Rb">>, <<38, "Sr">>, <<39, "Y">>, <<40, "Zr">>, <<41, "Nb">>,
    <<42, "Mo">>, <<43, "Tc">>, <<44, "Ru">>, <<45, "Rh">>, <<46, "Pd">>,
    <<47, "Ag">>, <<48, "Cd">>, <<49, "In">>, <<50, "Sn">>, <<51, "Sb">>,
    <<52, "Te">>, <<53, "I">>, <<54, "Xe">>, <<55, "Cs">>, <<56, "Ba">>,
    <<57, "La">>, <<58, "Ce">>, <<59, "Pr">>, <<60, "Nd">>, <<61, "Pm">>,
    <<62, "Sm">>, <<63, "Eu">>, <<64, "Gd">>, <<65, "Tb">>, <<66, "Dy">>,
    <<67, "Ho">>, <<68, "Er">>, <<69, "Tm">>, <<70, "Yb">>, <<71, "Lu">>,
    <<72, "Hf">>, <<73, "Ta">>, <<74, "W">>, <<75, "Re">>, <<76, "Os">>,
    <<77, "Ir">>, <<78, "Pt">>, <<79, "Au">>, <<80, "Hg">>, <<81, "Tl">>,
    <<82, "Pb">>, <<83, "Bi">>, <<84, "Po">>, <<85, "At">>, <<86, "Rn">>,
    <<87, "Fr">>, <<88, "Ra">>, <<89, "Ac">>, <<90, "Th">>, <<91, "Pa">>,
    <<92, "U">>, <<93, "Np">>, <<94, "Pu">>, <<95, "Am">>, <<96, "Cm">>,
    <<97, "Bk">>, <<98, "Cf">>, <<99, "Es">>, <<100, "Fm">>, <<101, "Md">>,
    <<102, "No">>, <<103, "Lr">>, <<104, "Rf">>, <<105, "Db">>, <<106, "Sg">>,
    <<107, "Bh">>, <<108, "Hs">>, <<109, "Mt">>, <<110, "Ds">>, <<111, "Rg">>,
    <<112, "Cn">>, <<114, "Uuq">>, <<116, "Uuh">>>>

NUCLEAR_CHARGE_items ==
  <<<<"H", 1>>, <<"He", 2>>, <<"Li", 3>>, <<"Be", 4>>, <<"B", 5>>, <<"C", 6>>,
    <<"N", 7>>, <<"O", 8>>, <<"F", 9>>, <<"Ne", 10>>, <<"Na", 11>>,
    <<"Mg", 12>>, <<"Al", 13>>, <<"Si", 14>>, <<"P", 15>>, <<"S", 16>>,
    <<"Cl", 17>>, <<"Ar", 18>>, <<"K", 19>>, <<"Ca", 20>>, <<"Sc", 21>>,
    <<"Ti", 22>>, <<"V", 23>>, <<"Cr", 24>>, <<"Mn", 25>>, <<"Fe", 26>>,
    <<"Co", 27>>, <<"Ni", 28>>, <<"Cu", 29>>, <<"Zn", 30>>, <<"Ga", 31>>,
    <<"Ge", 32>>, <<"As", 33>>, <<"Se", 34>>, <<"Br", 35>>, <<"Kr", 36>>,
    <<"Rb", 37>>, <<"Sr", 38>>, <<"Y", 39>>, <<"Zr", 40>>, <<"Nb", 41>>,
    <<"Mo", 42>>, <<"Tc", 43>>, <<"Ru", 44>>, <<"Rh", 45>>, <<"Pd", 46>>,
    <<"Ag", 47>>, <<"Cd", 48>>, <<"In", 49>>, <<"Sn", 50>>, <<"Sb", 51>>,
    <<"Te", 52>>, <<"I", 53>>, <<"Xe", 54>>, <<"Cs", 55>>, <<"Ba", 56>>,
    <<"La", 57>>, <<"Ce", 58>>, <<"Pr", 59>>, <<"Nd", 60>>, <<"Pm", 61>>,
    <<"Sm", 62>>, <<"Eu", 63>>, <<"Gd", 64>>, <<"Tb", 65>>, <<"Dy", 66>>,
    <<"Ho", 67>>, <<"Er", 68>>, <<"Tm", 69>>, <<"Yb", 70>>, <<"Lu", 71>>,
    <<"Hf", 72>>, <<"Ta", 73>>, <<"W", 74>>, <<"Re", 75>>, <<"Os", 76>>,
    <<"Ir", 77>>, <<"Pt", 78>>, <<"Au", 79>>, <<"Hg", 80>>, <<"Tl", 81>>,
    <<"Pb", 82>>, <<"Bi", 83>>, <<"Po", 84>>, <<"At", 85>>, <<"Rn", 86>>,
    <<"Fr", 87>>, <<"Ra", 88>>, <<"Ac", 89>>, <<"Th", 90>>, <<"Pa", 91>>,
    <<"U", 92>>, <<"Np", 93>>, <<"Pu", 94>>, <<"Am", 95>>, <<"Cm", 96>>,
    <<"Bk", 97>>, <<"Cf", 98>>, <<"Es", 99>>, <<"Fm", 100>>, <<"Md", 101>>,
    <<"No", 102>>, <<"Lr", 103>>, <<"Rf", 104>>, <<"Db", 105>>, <<"Sg", 106>>,
    <<"Bh", 107>>, <<"Hs", 108>>, <<"Mt", 109>>, <<"Ds", 110>>, <<"Rg", 111>>,
    <<"Cn", 112>>, <<"Uuq", 114>>, <<"Uuh", 116>>>>

ELEMENT_NAME == DictLiteral(ELEMENT_NAME_items)

NUCLEAR_CHARGE == DictLiteral(NUCLEAR_CHARGE_items)

\* the array the caller passes as alchemy: np.array([[0., 1.], [2., 3.]])
CallerMatrix == Array(2, 2, [i \in 0..1 |-> [j \in 0..1 |-> Flt(2 * i + j)]])

\* the mapping the caller passes as elemental_vectors: {0: [1, 0], 1: [1, 1]}
CallerVectors ==
  <<[key |-> 0, isint |-> TRUE, vec |-> <<1, 0>>],
    [key |-> 1, isint |-> TRUE, vec |-> <<1, 1>>]>>

\* the objects after the import: the four module-level dicts, the dict
\* that is the default of the parameter elemental_vectors, made once when
\* the def statement is executed, and what the caller has made
InitialHeap ==
  [PTP |-> PTP, QtNm |-> QtNm, ELEMENT_NAME |-> ELEMENT_NAME,
   NUCLEAR_CHARGE |-> NUCLEAR_CHARGE, default_vectors |-> << >>,
   matrix |-> CallerMatrix, vectors |-> CallerVectors, result |-> NoArray]

\* the calls: the caller's array ("raw") or a mode, emax, and in custom
\* mode the caller's mapping or none (the default); every width 1.0
SessionCalls(seq) ==
  [seq : {seq}, mode : {"raw", "off", "periodic-table", "quantum-numbers"},
   emax : 1..MaxSessionEmax, mapping : {"default_vectors"}]
    \cup [seq : {seq}, mode : {"custom"}, emax : 1..MaxSessionEmax,
          mapping : {"default_vectors", "vectors"}]

\* get_alchemy on the objects of the heap h
Called(h, a) ==
  get_alchemy(IF a.mode = "raw" THEN NdArray(h.matrix) ELSE Str(a.mode),
              PyInt(a.emax), 1000, 1000, h[a.mapping], 1000, 1000, 1000, 1000)

\* the object that is returned as pd: "pd = alchemy" in the raw branch, the
\* array the call has made (np.eye, np.zeros) in the others
ReturnedObject(a) == IF a.mode = "raw" THEN "matrix" ELSE "result"

\* a variant that keeps the mapping of a custom call in the default dict
Allocated_keeps_mapping(h, a, r) ==
  IF r.exc = "none" /\ ReturnedObject(a) = "result"
     THEN [h EXCEPT !.result = r.val.pd,
                    !.default_vectors = IF a.mode = "custom" THEN h[a.mapping]
                                        ELSE @]
     ELSE h

\* the heap after the call a that ended with r: the array it has made and
\* returned; the call assigns to no element of any other object
Allocated(h, a, r) ==
  IF r.exc = "none" /\ ReturnedObject(a) = "result"
     THEN [h EXCEPT !.result = r.val.pd]
     ELSE h

SessionInit ==
  /\ pc = "call"
  /\ args \in SessionCalls(1)
  /\ exc = "none"
  /\ ret = << >>
  /\ stdout = << >>
  /\ heap = InitialHeap

\* the call: what it returns is the flag and the name of the matrix
SessionCall ==
  /\ pc = "call"
  /\ LET r == Called(heap, args)
     IN  /\ exc' = r.exc
         /\ ret' = IF r.exc = "none"
                      THEN <<Pair(r.val.doalchemy, ReturnedObject(args))>>
                      ELSE << >>
         /\ stdout' = stdout \o r.out
         /\ heap' = Allocated(heap, args, r)
  /\ pc' = "done"
  /\ UNCHANGED args

\* the caller drops what the last call returned and prepares the next
Prepare ==
  /\ pc = "done"
  /\ args.seq < MaxCalls
  /\ args' \in SessionCalls(args.seq + 1)
  /\ pc' = "call"
  /\ exc' = "none"
  /\ ret' = << >>
  /\ UNCHANGED <<stdout, heap>>

\* the caller changes its array, m[0, 0] = 5., or a vector of its mapping,
\* vectors[0][0] = 5, in place
WriteInput ==
  /\ pc = "done"
  /\ \/ heap' = [heap EXCEPT !.matrix.data[0][0] = Flt(5)]
     \/ heap' = [heap EXCEPT !.vectors[1].vec[1] = 5]
  /\ heap' # heap
  /\ UNCHANGED <<pc, args, exc, ret, stdout>>

\* the caller changes the matrix it has got, pd[0, 0] = 5., in place
WriteResult ==
  /\ pc = "done"
  /\ ret # << >>
  /\ heap' = [heap EXCEPT ![ret[1].pd].data[0][0] = Flt(5)]
  /\ heap' # heap
  /\ UNCHANGED <<pc, args, exc, ret, stdout>>

SessionNext == SessionCall \/ Prepare \/ WriteInput \/ WriteResult

SessionSpec == SessionInit /\ [][SessionNext]_vars

(***************************************************************************)
(* qml/utils/utils.py: ceil, get_batch_size, get_pairs and the input      *)
(* checks check_y, check_sizes and check_classes.  A caller prepares one   *)
(* call [fn |-> name, ...arguments] and the function answers.              *)
(***************************************************************************)
\* Python's a // b on ints, b # 0: the quotient rounded towards minus
\* infinity, whatever the signs
FloorDiv(a, b) ==
  IF b > 0
     THEN IF a >= 0 THEN a \div b ELSE - ((b - 1 - a) \div b)
     ELSE IF a <= 0 THEN (- a) \div (- b) ELSE - ((a - b - 1) \div (- b))

\* a variant that loses the two negations: a // b
ceil_floor(a, b) ==
  IF b = 0 THEN Raise("ZeroDivisionError") ELSE Return(FloorDiv(a, b))

\* return -(-a//b)
ceil(a, b) ==
  IF b = 0 THEN Raise("ZeroDivisionError") ELSE Return(- FloorDiv(- a, b))

\* a variant whose number of batches is n_samples // batch_size
get_batch_size_floor(batch_size, n_samples) ==
  IF batch_size > n_samples
     THEN [exc |-> "none",
           val |-> IF n_samples <= batch_size THEN n_samples ELSE batch_size,
           out |-> <<"Warning: batch_size larger than sample size. It is going to be clipped">>]
  ELSE IF batch_size = 0 \/ FloorDiv(n_samples, batch_size) = 0
       THEN Raise("ZeroDivisionError")
  ELSE ceil(n_samples, FloorDiv(n_samples, batch_size))

\* a variant that keeps the requested size when it is not above n_samples
get_batch_size_keep(batch_size, n_samples) ==
  IF batch_size > n_samples
     THEN [exc |-> "none",
           val |-> IF n_samples <= batch_size THEN n_samples ELSE batch_size,
           out |-> <<"Warning: batch_size larger than sample size. It is going to be clipped">>]
  ELSE IF batch_size = 0 THEN Raise("ZeroDivisionError")
  ELSE Return(batch_size)

get_batch_size(batch_size, n_samples) ==
  IF batch_size > n_samples
     THEN [exc |-> "none",
           val |-> IF n_samples <= batch_size THEN n_samples ELSE batch_size,
           out |-> <<"Warning: batch_size larger than sample size. It is going to be clipped">>]
  ELSE LET batches == ceil(n_samples, batch_size)
       IN  IF batches.exc # "none" THEN batches
           ELSE ceil(n_samples, batches.val)

\* the pairs [v, w] the inner loop appends for the index i (1-based):
\* v = x[i], w over the slice x[i:]
PairsOfRow(x, i) == [k \in 1..(Len(x) - i + 1) |-> <<x[i], x[i + k - 1]>>]

\* the pairs appended from the index i on
RECURSIVE PairsFrom(_, _)
PairsFrom(x, i) ==
  IF i > Len(x) THEN << >> ELSE PairsOfRow(x, i) \o PairsFrom(x, i + 1)

\* a variant whose inner loop starts after v: the slice x[i+1:]
get_pairs_strict(x) ==
  LET RECURSIVE From(_)
      From(i) ==
        IF i > Len(x) THEN << >>
        ELSE [k \in 1..(Len(x) - i) |-> <<x[i], x[i + k]>>] \o From(i + 1)
  IN  Return(From(1))

get_pairs(x) == Return(PairsFrom(x, 1))

(***************************************************************************)
(* The input checks of utils.py.  A Python value is a record: its type,    *)
(* and for an array-like its dtype, its shape and its elements in          *)
(* row-major order.  An element is a record of its kind t and a number v:   *)
(* an int v, a float of v halves (3 is 1.5), nan, inf, None, the string of  *)
(* the digits of the int v ("1"), the string of the decimal of v halves     *)
(* ("1.5"), or a word that spells no number ("a").                          *)
(***************************************************************************)
IntElement(n) == [t |-> "int", v |-> n]

FloatElement(halves) == [t |-> "float", v |-> halves]

NaN == [t |-> "nan", v |-> 0]

Inf == [t |-> "inf", v |-> 0]

NoneElement == [t |-> "None", v |-> 0]

Digits(n) == [t |-> "digits", v |-> n]

Decimal(halves) == [t |-> "decimal", v |-> halves]

Word == [t |-> "word", v |-> 0]

None == [type |-> "NoneType", dtype |-> "none", shape |-> << >>, data |-> << >>]

\* x is None
IsNone(x) == x.type = "NoneType"

\* a float, a str or a dict: a value that is not array-like and not None
Scalar(t) == [type |-> t, dtype |-> "none", shape |-> << >>, data |-> << >>]

ArrayLike(t, dtype, shape, data) ==
  [type |-> t, dtype |-> dtype, shape |-> shape, data |-> data]

\* the number of elements of an array of the shape
RECURSIVE SizeFrom(_, _)
SizeFrom(shape, k) ==
  IF k > Len(shape) THEN 1 ELSE shape[k] * SizeFrom(shape, k + 1)

Size(shape) == SizeFrom(shape, 1)

\* isinstance(x, (tuple, list, np.ndarray))
is_array_like(x) == x.type \in {"tuple", "list", "ndarray"}

\* ndim == 1, or ndim == 2 with a 1 in the shape
is_1d_array(x) ==
  /\ is_array_like(x)
  /\ \/ Len(x.shape) = 1
     \/ Len(x.shape) = 2 /\ \E k \in 1..2 : x.shape[k] = 1

\* the reversed sequence
Reversed(seq) == [k \in 1..Len(seq) |-> seq[Len(seq) + 1 - k]]

\* the index along the axis k (1-based) of the element at the row-major
\* position p (0-based) of an array of the shape
AxisIndex(p, shape, k) == (p \div SizeFrom(shape, k + 1)) % shape[k]

\* the row-major position (0-based) of the element with the indices idx
RECURSIVE Position(_, _, _)
Position(idx, shape, k) ==
  IF k = 0 THEN 0 ELSE Position(idx, shape, k - 1) * shape[k] + idx[k]

\* the dtype numpy gives the array it makes of x: that of the elements,
\* float64 for a list or tuple without elements
DtypeOf(x) ==
  IF x.type \in {"list", "tuple"} /\ Size(x.shape) = 0 THEN "float"
  ELSE x.dtype

\* np.atleast_2d: a 0-d array becomes (1, 1), a 1-d array of n (1, n)
np_atleast_2d(x) ==
  ArrayLike("ndarray", DtypeOf(x),
          IF Len(x.shape) = 0 THEN <<1, 1>>
          ELSE IF Len(x.shape) = 1 THEN <<1, x.shape[1]>>
          ELSE x.shape,
          x.data)

\* .T: the axes reversed, element (i1, ..., ik) taken from (ik, ..., i1)
Transposed(x) ==
  LET shape == Reversed(x.shape)
      idx(p) == [k \in 1..Len(shape) |-> AxisIndex(p, shape, k)]
  IN  ArrayLike("ndarray", x.dtype, shape,
              [q \in 1..Size(shape) |->
                 x.data[Position(Reversed(idx(q - 1)), x.shape, Len(shape)) + 1]])

check_y(y) ==
  IF ~ is_array_like(y) THEN Raise("InputError: y should be array like.")
  ELSE Return(Transposed(np_atleast_2d(y)))

\* v.shape[k] (k 0-based): None has no shape, a short shape no such index
ShapeAt(v, k) ==
  IF v.type = "NoneType" THEN Raise("AttributeError")
  ELSE IF k >= Len(v.shape) THEN Raise("IndexError")
  ELSE Return(v.shape[k + 1])

\* a.shape[k] != b.shape[k], the left operand evaluated first
Differs(a, b, k) ==
  LET l == ShapeAt(a, k)
      r == ShapeAt(b, k)
  IN  IF l.exc # "none" THEN l
      ELSE IF r.exc # "none" THEN r
      ELSE Return(l.val # r.val)

\* c1 or c2: c2 is evaluated only when c1 is false
Or(c1, c2) == IF c1.exc # "none" \/ c1.val THEN c1 ELSE c2

\* if c: raise InputError(msg); then the rest.  msg is formatted when the
\* exception is built, and what it reads may raise in its turn
IfRaise(c, msg, rest) ==
  IF c.exc # "none" THEN c
  ELSE IF c.val THEN IF msg.exc # "none" THEN msg
                     ELSE Raise("InputError: " \o msg.val)
  ELSE rest

\* "%s" of v.shape[k]
Shown(v, k) ==
  LET r == ShapeAt(v, k)
  IN  IF r.exc # "none" THEN r ELSE Return(Numeral(r.val))

\* the operands of "%" evaluated from left to right and put into the text
Fmt(head, l, sep, r, tail) ==
  IF l.exc # "none" THEN l
  ELSE IF r.exc # "none" THEN r
  ELSE Return(head \o l.val \o sep \o r.val \o tail)

check_sizes(x, y, dy, classes) ==
  IF IsNone(dy) /\ IsNone(classes)
     THEN IfRaise(Differs(x, y, 0),
                  Fmt("The descriptor and the properties should have the same first number of elements in the first dimension. Got ",
                      Shown(x, 0), " and ", Shown(y, 0), ""),
                  Return(None))
  ELSE IF IsNone(y) /\ IsNone(dy)
     THEN IF IsNone(classes) THEN Raise("InputError: Only x is not none.")
          ELSE IfRaise(Differs(x, classes, 0),
                       Fmt("Different number of samples in the descriptor and the classes: ",
                           Shown(x, 0), " and ", Shown(classes, 0), "."),
               IF Len(x.shape) = 3
                  THEN IfRaise(Differs(x, classes, 1),
                               Fmt("The number of atoms in the descriptor and in the classes is different: ",
                                   Shown(x, 1), " and ", Shown(classes, 1), "."),
                               Return(None))
                  ELSE Return(None))
  ELSE IF IsNone(dy) /\ ~ IsNone(classes)
     THEN IfRaise(Or(Differs(x, y, 0), Differs(x, classes, 0)),
                  Fmt("All x, y and classes should have the first number of elements in the first dimension. Got ",
                      Shown(x, 0), ", ",
                      Fmt("", Shown(y, 0), " and ", Shown(classes, 0), ""), ""),
          IF Len(x.shape) = 3
             THEN IfRaise(Differs(x, classes, 1),
                          Fmt("x and classes should have the same number of elements in the 2nd dimension. Got ",
                              Shown(x, 1), " and ", Shown(classes, 1), ""),
                          Return(None))
             ELSE Return(None))
  ELSE IfRaise(Or(Differs(x, y, 0), Or(Differs(x, dy, 0), Differs(x, classes, 0))),
               Fmt("All x, y, dy and classes should have the first number of elements in the first dimension. Got ",
                   Fmt("", Shown(x, 0), ", ", Shown(y, 0), ""), ", ",
                   Fmt("", Shown(dy, 0), " and ", Shown(classes, 0), ""), ""),
       IfRaise(Or(Differs(x, dy, 1), Differs(x, classes, 1)),
               Fmt("x, dy and classes should have the same number of elements in the 2nd dimension. Got ",
                   Shown(x, 1), ", ",
                   Fmt("", Shown(dy, 1), " and ", Shown(classes, 1), ""), ""),
               Return(None)))

\* the element as a float: None becomes nan, the string of a number the
\* number; a word has no float (ValueError)
AsFloat(e) ==
  CASE e.t = "int" -> Return(FloatElement(2 * e.v))
    [] e.t \in {"float", "nan", "inf"} -> Return(e)
    [] e.t = "None" -> Return(NaN)
    [] e.t = "digits" -> Return(FloatElement(2 * e.v))
    [] e.t = "decimal" -> Return(FloatElement(e.v))
    [] e.t = "word" -> Raise("ValueError")

\* the halves h as an int: the fraction dropped, towards zero
TowardsZero(h) == IF h >= 0 THEN h \div 2 ELSE - ((- h) \div 2)

\* the least and the greatest int64, -2^63 and 2^63 - 1
Int64Min == [t |-> "int64-min", v |-> 0]

Int64Max == [t |-> "int64-max", v |-> 0]

\* the C cast of a float64 that is nan or inf to int64 is undefined: the int
\* it yields is the build's, one for nan and one for inf (-2^63 for both on
\* x86-64; elsewhere 0, 2^63 - 1 or any other int)
Casts ==
  LET ints == {Int64Min, Int64Max} \cup {IntElement(n) : n \in (-1)..1}
  IN  [nan : ints, inf : ints]

\* the element of x as an int, under the build's cast.  int() of a Python
\* float nan raises ValueError, of inf OverflowError, of None TypeError, of
\* the string of a decimal ValueError; an ndarray of floats is cast without
\* an exception, nan and inf to the ints of the build
AsInt(x, e, cast) ==
  CASE e.t = "int" -> Return(IntElement(e.v))
    [] e.t = "float" -> Return(IntElement(TowardsZero(e.v)))
    [] e.t = "nan" -> IF x.type = "ndarray" THEN Return(cast.nan)
                      ELSE Raise("ValueError")
    [] e.t = "inf" -> IF x.type = "ndarray" THEN Return(cast.inf)
                      ELSE Raise("OverflowError")
    [] e.t = "None" -> Raise("TypeError")
    [] e.t = "digits" -> Return(IntElement(e.v))
    [] e.t \in {"decimal", "word"} -> Raise("ValueError")

\* np.asarray(x, dtype=float) raises
FloatRaises(x) == \E q \in 1..Len(x.data) : AsFloat(x.data[q]).exc # "none"

\* size > 0 and np.asarray(x, dtype=float) succeeds; its ValueError and
\* TypeError are caught
is_numeric_array(x) ==
  /\ is_array_like(x)
  /\ Size(x.shape) > 0
  /\ ~ FloatRaises(x)

\* f >= 0 of a float: false of nan
AtLeastZero(f) == f.t = "inf" \/ (f.t = "float" /\ f.v >= 0)

\* the elements as floats are all >= 0
_is_positive_or_zero_array(x) ==
  /\ is_numeric_array(x)
  /\ \A q \in 1..Len(x.data) : AtLeastZero(AsFloat(x.data[q]).val)

\* f == i of a float and an int: false of nan, and of inf whatever the int
EqualsInt(f, i) == f.t = "float" /\ i.t = "int" /\ f.v = 2 * i.v

\* np.asarray(x, dtype=int): the exception of the first element, in
\* row-major order, that has no int, or none
RECURSIVE IntRaisesFrom(_, _, _)
IntRaisesFrom(x, q, cast) ==
  IF q > Len(x.data) THEN "none"
  ELSE IF AsInt(x, x.data[q], cast).exc # "none"
     THEN AsInt(x, x.data[q], cast).exc
  ELSE IntRaisesFrom(x, q + 1, cast)

\* the elements as floats equal the elements cast to int; the cast to int
\* is made outside any try
_is_integer_array(x, cast) ==
  IF ~ is_numeric_array(x) THEN Return(FALSE)
  ELSE IF IntRaisesFrom(x, 1, cast) # "none"
     THEN Raise(IntRaisesFrom(x, 1, cast))
  ELSE Return(\A q \in 1..Len(x.data) :
                 EqualsInt(AsFloat(x.data[q]).val,
                           AsInt(x, x.data[q], cast).val))

\* _is_integer_array(x) and _is_positive_or_zero_array(x)
is_positive_integer_or_zero_array(x, cast) ==
  LET i == _is_integer_array(x, cast)
  IN  IF i.exc # "none" THEN i
      ELSE Return(i.val /\ _is_positive_or_zero_array(x))

\* np.asarray: the same elements as an ndarray
np_asarray(x) == ArrayLike("ndarray", DtypeOf(x), x.shape, x.data)

check_classes(classes, cast) ==
  IF IsNone(classes) THEN Return(None)
  ELSE IF ~ is_array_like(classes)
     THEN Raise("InputError: classes should be array like.")
  ELSE IF is_positive_integer_or_zero_array(classes, cast).exc # "none"
     THEN is_positive_integer_or_zero_array(classes, cast)
  ELSE IF ~ is_positive_integer_or_zero_array(classes, cast).val
     THEN Raise("InputError: classes should be an array of ints.")
  ELSE IF Len(classes.shape) # 2
     THEN Raise("InputError: classes should be an array with 2 dimensions. Got "
                  \o Numeral(Len(classes.shape)))
  ELSE Return(np_asarray(classes))

\* the calls of the model
CeilRequests ==
  [fn : {"ceil"}, a : (- MaxOperand)..MaxOperand, b : (- MaxOperand)..MaxOperand]

BatchRequests ==
  [fn : {"get_batch_size"}, batch_size : (-1)..(MaxSamples + 1),
   n_samples : (-1)..MaxSamples]

\* lists of at most MaxLen values, repeated values among them
ListInputs == UNION {[1..n -> 1..3] : n \in 0..MaxLen}

PairsRequests == [fn : {"get_pairs"}, x : ListInputs]

UtilRequests == CeilRequests \cup BatchRequests \cup PairsRequests

\* the shapes of r axes of at most MaxDim elements each
Shapes(r) == [1..r -> 0..MaxDim]

\* np.arange(size).reshape(shape), or the list of it
np_arange(t, shape) ==
  ArrayLike(t, "int", shape, [q \in 1..Size(shape) |-> IntElement(q - 1)])

\* what check_y is handed: None, a float, a str, a dict, an array of 0 to 3
\* axes or a flat list
CheckYInputs ==
  {None, Scalar("float"), Scalar("str"), Scalar("dict")}
    \cup {np_arange("ndarray", shape) : shape \in UNION {Shapes(r) : r \in 0..3}}
    \cup {np_arange("list", shape) : shape \in Shapes(1)}

\* np.zeros(shape)
np_zeros_of(shape) ==
  ArrayLike("ndarray", "float", shape, [q \in 1..Size(shape) |-> FloatElement(0)])

\* what check_sizes is handed as x and dy: arrays of 1 to 3 axes, n samples,
\* a atoms, the last of three axes of length 3
SampleArrays ==
  {np_zeros_of(<<n>>) : n \in 1..MaxDim}
    \cup {np_zeros_of(<<n, a>>) : n \in 1..MaxDim, a \in 1..MaxDim}
    \cup {np_zeros_of(<<n, a, 3>>) : n \in 1..MaxDim, a \in 1..MaxDim}

\* as y: a flat array or a column
PropertyArrays ==
  {np_zeros_of(<<n>>) : n \in 1..MaxDim} \cup {np_zeros_of(<<n, 1>>) : n \in 1..MaxDim}

\* as classes: arrays of 1 or 2 axes
ClassArrays ==
  {np_zeros_of(<<n>>) : n \in 1..MaxDim}
    \cup {np_zeros_of(<<n, a>>) : n \in 1..MaxDim, a \in 1..MaxDim}

\* the elements of the arrays handed to check_classes: -1, 0, 1 as ints;
\* -1.0, 1.0, 1.5, nan, inf as floats; "a", "1", "-1", "1.5" as strings;
\* None as an object
Elements(dtype) ==
  CASE dtype = "int" -> {IntElement(-1), IntElement(0), IntElement(1)}
    [] dtype = "float" -> {FloatElement(-2), FloatElement(2), FloatElement(3), NaN, Inf}
    [] dtype = "str" -> {Word, Digits(1), Digits(-1), Decimal(3)}
    [] dtype = "object" -> {NoneElement}

\* the shapes of 0 to 3 axes with at most MaxCells elements
ClassShapes(r) == {shape \in Shapes(r) : Size(shape) <= MaxCells}

\* an ndarray has any shape; a list or a tuple has an axis, and nested
\* ones no empty axis but the last
ArrayTypes(shape) ==
  IF Len(shape) >= 1 /\ \A k \in 1..(Len(shape) - 1) : shape[k] # 0
     THEN {"list", "tuple", "ndarray"}
  ELSE {"ndarray"}

UtilInit ==
  /\ pc = "call"
  /\ \/ args \in UtilRequests
     \/ \E y \in CheckYInputs : args = [fn |-> "check_y", y |-> y]
     \/ \E x \in SampleArrays, y \in {None} \cup PropertyArrays,
           dy \in {None} \cup SampleArrays, classes \in {None} \cup ClassArrays :
          args = [fn |-> "check_sizes", x |-> x, y |-> y, dy |-> dy,
                  classes |-> classes]
     \/ \E classes \in {None, Scalar("float"), Scalar("str")} :
          args = [fn |-> "check_classes", classes |-> classes]
     \/ \E r \in 0..3, dtype \in {"int", "float", "str", "object"} :
          \E shape \in ClassShapes(r) :
            \E t \in ArrayTypes(shape),
               data \in [1..Size(shape) -> Elements(dtype)] :
              args = [fn |-> "check_classes",
                      classes |-> ArrayLike(t, dtype, shape, data)]
  /\ exc = "none"
  /\ ret = << >>
  /\ stdout = << >>
  /\ heap = << >>

\* the end of a call with the result r
Ends(r) ==
  /\ exc' = r.exc
  /\ ret' = IF r.exc = "none" THEN <<r.val>> ELSE << >>
  /\ stdout' = stdout \o r.out
  /\ pc' = "done"
  /\ UNCHANGED <<args, heap>>

Ceil ==
  /\ pc = "call"
  /\ args.fn = "ceil"
  /\ Ends(ceil(args.a, args.b))

GetBatchSize ==
  /\ pc = "call"
  /\ args.fn = "get_batch_size"
  /\ Ends(get_batch_size(args.batch_size, args.n_samples))

GetPairs ==
  /\ pc = "call"
  /\ args.fn = "get_pairs"
  /\ Ends(get_pairs(args.x))

CheckY ==
  /\ pc = "call"
  /\ args.fn = "check_y"
  /\ Ends(check_y(args.y))

CheckSizes ==
  /\ pc = "call"
  /\ args.fn = "check_sizes"
  /\ Ends(check_sizes(args.x, args.y, args.dy, args.classes))

CheckClasses ==
  /\ pc = "call"
  /\ args.fn = "check_classes"
  /\ \E cast \in Casts : Ends(check_classes(args.classes, cast))

UtilNext ==
  Ceil \/ GetBatchSize \/ GetPairs \/ CheckY \/ CheckSizes \/ CheckClasses

UtilSpec == UtilInit /\ [][UtilNext]_vars

(***************************************************************************)
(* The kernel entry points (get_atomic_kernels, get_local_kernels,         *)
(* get_global_kernels and their symmetric forms).  Their code is not part  *)
(* of the source files at hand; they are modelled from the specification,  *)
(* sections 4.2 and 4.3.  A caller calls the symmetric entry point on X    *)
(* and then the two-set entry point on (X, Y), as the tests do.            *)
(*                                                                         *)
(* A kernel value is held exactly, as a sum of terms c * exp(-n/16) with   *)
(* integers c # 0 and n >= 0: the function that maps the exponents n of    *)
(* the sum to their coefficients c.  An integer z is the term z * exp(0).  *)
(* exp(-1/16) is transcendental, so two values are equal exactly when      *)
(* their functions are.  The kernels of section 4.2 whose values on        *)
(* integer features are such sums are modelled: linear, polynomial,        *)
(* polynomial2, l2, gaussian, laplacian, sargan and wasserstein.  The      *)
(* values of sigmoid, multiquadratic, inverse-multiquadratic, bessel,      *)
(* matern and cauchy are no such sums.                                     *)
(***************************************************************************)
RECURSIVE Pow(_, _)
Pow(b, d) == IF d = 0 THEN 1 ELSE b * Pow(b, d - 1)

\* the integer z
Exact(z) == [n \in (IF z = 0 THEN {} ELSE {0}) |-> z]

\* exp(-n/16), n >= 0
Exp16(n) == [m \in {n} |-> 1]

\* the coefficient of exp(-n/16) in the value a
Coef(a, n) == IF n \in DOMAIN a THEN a[n] ELSE 0

\* a + b
Plus(a, b) ==
  [n \in {m \in DOMAIN a \cup DOMAIN b : Coef(a, m) + Coef(b, m) # 0} |->
     Coef(a, n) + Coef(b, n)]

\* the coefficient of exp(-n/16) in a * b, summed over the exponents S of a
RECURSIVE ProductCoef(_, _, _, _)
ProductCoef(a, b, n, S) ==
  IF S = {} THEN 0
  ELSE LET i == CHOOSE m \in S : TRUE
       IN  a[i] * Coef(b, n - i) + ProductCoef(a, b, n, S \ {i})

\* a * b
Product(a, b) ==
  [n \in {m \in {i + j : i \in DOMAIN a, j \in DOMAIN b} :
             ProductCoef(a, b, m, DOMAIN a) # 0} |->
     ProductCoef(a, b, n, DOMAIN a)]

\* an entry of a similarity matrix as a kernel value: an integer, or
\* exp(n/16) with n < 0
FromFloat(f) ==
  CASE f.k = "int" -> Exact(f.n)
    [] f.k = "exp" /\ f.n < 0 -> Exp16(- f.n)

\* the squared L2 distance of the first k coordinates
RECURSIVE SqDistUpTo(_, _, _)
SqDistUpTo(u, v, k) ==
  IF k = 0 THEN 0
  ELSE SqDistUpTo(u, v, k - 1) + (u[k] - v[k]) * (u[k] - v[k])

\* |z|
AbsOf(z) == IF z < 0 THEN - z ELSE z

\* the L1 distance of the first k coordinates
RECURSIVE AbsDistUpTo(_, _, _)
AbsDistUpTo(u, v, k) ==
  IF k = 0 THEN 0 ELSE AbsDistUpTo(u, v, k - 1) + AbsOf(u[k] - v[k])

\* the vector u with x put in among its first k coordinates, which are in
\* ascending order
RECURSIVE InsertedUpTo(_, _, _)
InsertedUpTo(u, x, k) ==
  IF k = 0 THEN <<x>>
  ELSE IF u[k] <= x THEN Append(SubSeq(u, 1, k), x)
  ELSE Append(InsertedUpTo(u, x, k - 1), u[k])

\* the first k coordinates of u in ascending order
RECURSIVE SortedUpTo(_, _)
SortedUpTo(u, k) ==
  IF k = 0 THEN << >> ELSE InsertedUpTo(SortedUpTo(u, k - 1), u[k], k - 1)

\* the 1D Wasserstein distance of u and v as empirical distributions, times
\* their length: the L1 distance of the sorted vectors
WassersteinSum(u, v) ==
  AbsDistUpTo(SortedUpTo(u, Len(u)), SortedUpTo(v, Len(v)), Len(u))

\* num / den in sixteenths; the parameters of the requests make it whole
Sixteenths(num, den) == (16 * num) \div den

\* the sum of coeff[i] * x^i over the first k coefficients, i from 0
RECURSIVE PolynomialUpTo(_, _, _)
PolynomialUpTo(coeff, x, k) ==
  IF k = 0 THEN 0
  ELSE PolynomialUpTo(coeff, x, k - 1) + coeff[k] * Pow(x, k - 1)

\* the sum of gamma[k] / sigma^k * d^k over the first m gammas; the gammas
\* of the requests are multiples of sigma^k
RECURSIVE SarganUpTo(_, _, _, _)
SarganUpTo(gamma, sigma, d, m) ==
  IF m = 0 THEN 0
  ELSE SarganUpTo(gamma, sigma, d, m - 1)
         + (gamma[m] \div Pow(sigma, m)) * Pow(d, m)

\* k(u, v, params) of the table of section 4.2
kernel_function(name, u, v, p) ==
  CASE name = "linear" -> Exact(DotUpTo(u, v, Len(u)))
    [] name = "l2" -> Exact(SqDistUpTo(u, v, Len(u)))
    [] name = "polynomial" ->
         Exact(Pow(p.alpha * DotUpTo(u, v, Len(u)) + p.c, p.d))
    [] name = "polynomial2" ->
         Exact(PolynomialUpTo(p.list, DotUpTo(u, v, Len(u)), Len(p.list)))
    [] name = "gaussian" ->
         Exp16(Sixteenths(SqDistUpTo(u, v, Len(u)), 2 * p.sigma * p.sigma))
    [] name = "laplacian" ->
         Exp16(Sixteenths(AbsDistUpTo(u, v, Len(u)), p.sigma))
    [] name = "sargan" ->
         Product(Exp16(Sixteenths(AbsDistUpTo(u, v, Len(u)), p.sigma)),
                 Exact(1 + SarganUpTo(p.list, p.sigma,
                                      AbsDistUpTo(u, v, Len(u)), Len(p.list))))
    [] name = "wasserstein" ->
         Exp16(Sixteenths(WassersteinSum(u, v), Len(u) * p.sigma))

\* K(U, V, params): the matrix of the kernel values, |U| x |V|
kernel_matrix(U, V, name, p) ==
  [i \in 1..Len(U) |-> [j \in 1..Len(V) |-> kernel_function(name, U[i], V[j], p)]]

\* a variant that computes the upper triangle and leaves the rest 0
kernel_matrix_symmetric_upper(U, name, p) ==
  [i \in 1..Len(U) |->
     [j \in 1..Len(U) |->
        IF i <= j THEN kernel_function(name, U[i], U[j], p) ELSE Exact(0)]]

\* K_sym(U, params): the upper triangle is computed, the lower mirrored
kernel_matrix_symmetric(U, name, p) ==
  [i \in 1..Len(U) |->
     [j \in 1..Len(U) |->
        IF i <= j THEN kernel_function(name, U[i], U[j], p)
                  ELSE kernel_function(name, U[j], U[i], p)]]

\* an atom of a representation: its feature vector, its nuclear charge and
\* its radial distance
Atom(vec, charge, distance) ==
  [vec |-> vec, charge |-> charge, distance |-> distance]

\* the keyword arguments of an entry point: the kernel and its parameter
\* list; weighted, whether the atom-pair scores are pre-weighted, and then
\* the alchemy mode or matrix and the cutoff distance
KernelArgs(kernel, params, weighted, alchemy, cut_distance) ==
  [kernel |-> kernel, params |-> params, weighted |-> weighted,
   alchemy |-> alchemy, cut_distance |-> cut_distance]

\* the bandwidths an entry point hands to get_alchemy: 1.0, as
\* test_krr_fchl_local passes them
KernelWidth == 1000

\* what get_alchemy returns for the alchemy argument with the default emax
\* and these bandwidths, or the exception it raises
alchemy_of(alchemy) ==
  get_alchemy(alchemy, PyInt(DefaultEmax), KernelWidth, KernelWidth,
              << >>, KernelWidth, KernelWidth, KernelWidth, KernelWidth)

\* that of the periodic-table mode, computed once
PeriodicTableAlchemy == alchemy_of(Str("periodic-table"))

\* the element-similarity matrix of a call
similarity(o) ==
  IF ~ o.weighted THEN Return(Pair(FALSE, NoArray))
  ELSE IF EqStr(o.alchemy, "periodic-table") THEN PeriodicTableAlchemy
  ELSE alchemy_of(o.alchemy)

\* the smooth radial cutoff of an atom at the distance r, in units of
\* rc^-3: rc^3 at r = 0, (rc - r)^2 (rc + 2 r) below the cutoff distance rc
\* and 0 from rc on; the value and its first derivative are continuous at rc
cutoff_function(r, rc) ==
  IF r >= rc THEN 0 ELSE (rc - r) * (rc - r) * (rc + 2 * r)

\* the weight of the pair of atoms (a, b): the entry of the similarity
\* matrix pd for their nuclear charges, times the cutoff of each
pair_weight(a, b, o, pd) ==
  Product(FromFloat(pd.data[a.charge - 1][b.charge - 1]),
          Exact(cutoff_function(a.distance, o.cut_distance)
                  * cutoff_function(b.distance, o.cut_distance)))

\* the score of the pair of atoms (a, b): the kernel of their feature
\* vectors, pre-weighted if the call asks for it
atom_pair_score(a, b, o, p, pd) ==
  IF ~ o.weighted THEN kernel_function(o.kernel, a.vec, b.vec, p)
  ELSE Product(pair_weight(a, b, o, pd),
               kernel_function(o.kernel, a.vec, b.vec, p))

\* the atom x atom Gram matrix of two sets of atoms
atomic_matrix(A, B, o, p, pd) ==
  [i \in 1..Len(A) |-> [j \in 1..Len(B) |-> atom_pair_score(A[i], B[j], o, p, pd)]]

\* the symmetric form: the upper triangle is computed, the lower mirrored
atomic_matrix_symmetric(A, o, p, pd) ==
  [i \in 1..Len(A) |->
     [j \in 1..Len(A) |->
        IF i <= j THEN atom_pair_score(A[i], A[j], o, p, pd)
                  ELSE atom_pair_score(A[j], A[i], o, p, pd)]]

\* the sum of the first m entries of a row, of the first n rows of a matrix
RECURSIVE RowSum(_, _)
RowSum(row, m) == IF m = 0 THEN Exact(0) ELSE Plus(RowSum(row, m - 1), row[m])

RECURSIVE BlockSum(_, _, _)
BlockSum(G, n, m) ==
  IF n = 0 THEN Exact(0) ELSE Plus(BlockSum(G, n - 1, m), RowSum(G[n], m))

\* a variant that sums the whole padded block
local_entry_padded(x, y, o, p, pd) ==
  BlockSum(atomic_matrix(x.rep, y.rep, o, p, pd), Len(x.rep), Len(y.rep))

\* the local kernel of two molecules [natoms, rep], rep the padded array
\* of atoms: the atomic Gram matrix summed over the valid atom ranges
local_entry(x, y, o, p, pd) ==
  BlockSum(atomic_matrix(x.rep, y.rep, o, p, pd), x.natoms, y.natoms)

local_matrix(X, Y, o, p, pd) ==
  [i \in 1..Len(X) |-> [j \in 1..Len(Y) |-> local_entry(X[i], Y[j], o, p, pd)]]

local_matrix_symmetric(X, o, p, pd) ==
  [i \in 1..Len(X) |->
     [j \in 1..Len(X) |->
        IF i <= j THEN local_entry(X[i], X[j], o, p, pd)
                  ELSE local_entry(X[j], X[i], o, p, pd)]]

\* the lengths of the feature vectors of a set of vectors, of a set of
\* atoms, of a set of molecules
FeatureLengths(U) == {Len(U[i]) : i \in 1..Len(U)}

AtomFeatureLengths(A) == {Len(A[i].vec) : i \in 1..Len(A)}

MoleculeFeatureLengths(X) == UNION {AtomFeatureLengths(X[i].rep) : i \in 1..Len(X)}

\* an atom count exceeds the atom axis of its padded representation
AtomCountOverflow(X) == \E i \in 1..Len(X) : X[i].natoms > Len(X[i].rep)

\* one Gram matrix per parameter value, in the order of the list
Sweep(params, matrix) == Return([q \in 1..Len(params) |-> matrix[q]])

get_atomic_kernels(A, B, o) ==
  IF similarity(o).exc # "none" THEN similarity(o)
  ELSE IF Cardinality(AtomFeatureLengths(A) \cup AtomFeatureLengths(B)) > 1
     THEN Raise("InputError")
  ELSE Sweep(o.params,
             [q \in 1..Len(o.params) |->
                atomic_matrix(A, B, o, o.params[q], similarity(o).val.pd)])

get_atomic_symmetric_kernels(A, o) ==
  IF similarity(o).exc # "none" THEN similarity(o)
  ELSE IF Cardinality(AtomFeatureLengths(A)) > 1 THEN Raise("InputError")
  ELSE Sweep(o.params,
             [q \in 1..Len(o.params) |->
                atomic_matrix_symmetric(A, o, o.params[q], similarity(o).val.pd)])

get_global_kernels(X, Y, o) ==
  IF Cardinality(FeatureLengths(X) \cup FeatureLengths(Y)) > 1
     THEN Raise("InputError")
  ELSE Sweep(o.params,
             [q \in 1..Len(o.params) |-> kernel_matrix(X, Y, o.kernel, o.params[q])])

get_global_symmetric_kernels(X, o) ==
  IF Cardinality(FeatureLengths(X)) > 1 THEN Raise("InputError")
  ELSE Sweep(o.params,
             [q \in 1..Len(o.params) |->
                kernel_matrix_symmetric(X, o.kernel, o.params[q])])

get_local_kernels(X, Y, o) ==
  IF similarity(o).exc # "none" THEN similarity(o)
  ELSE IF Cardinality(MoleculeFeatureLengths(X) \cup MoleculeFeatureLengths(Y)) > 1
     THEN Raise("InputError")
  ELSE IF AtomCountOverflow(X) \/ AtomCountOverflow(Y) THEN Raise("InputError")
  ELSE Sweep(o.params,
             [q \in 1..Len(o.params) |->
                local_matrix(X, Y, o, o.params[q], similarity(o).val.pd)])

get_local_symmetric_kernels(X, o) ==
  IF similarity(o).exc # "none" THEN similarity(o)
  ELSE IF Cardinality(MoleculeFeatureLengths(X)) > 1 THEN Raise("InputError")
  ELSE IF AtomCountOverflow(X) THEN Raise("InputError")
  ELSE Sweep(o.params,
             [q \in 1..Len(o.params) |->
                local_matrix_symmetric(X, o, o.params[q], similarity(o).val.pd)])

\* the parameters of one kernel evaluation: alpha, c, d of the polynomial
\* kernel, sigma, and the list of the coefficients (polynomial2) or of the
\* gammas (sargan)
KernelParams(alpha, c, d, sigma, list) ==
  [alpha |-> alpha, c |-> c, d |-> d, sigma |-> sigma, list |-> list]

PolyParams(alpha, c, d) == KernelParams(alpha, c, d, 1, << >>)

SigmaParams(sigma) == KernelParams(1, 0, 1, sigma, << >>)

ListParams(sigma, list) == KernelParams(1, 0, 1, sigma, list)

\* a call without pre-weighting
Unweighted(kernel, params) == KernelArgs(kernel, params, FALSE, Str("off"), 0)

\* the kernels with integer values and their parameter lists: one value for
\* the kernels without parameters, two for the polynomial kernel
KernelChoices ==
  {Unweighted("linear", <<PolyParams(1, 0, 1)>>),
   Unweighted("l2", <<PolyParams(1, 0, 1)>>),
   Unweighted("polynomial", <<PolyParams(1, 1, 2), PolyParams(2, -1, 3)>>)}

\* the other kernels: gaussian with sigma 2 and 1, laplacian with sigma 4,
\* sargan with sigma 2 and the gammas 2, 4, wasserstein with sigma 8,
\* polynomial2 with the coefficients 1, -2, 3
MoreKernelChoices ==
  {Unweighted("gaussian", <<SigmaParams(2), SigmaParams(1)>>),
   Unweighted("laplacian", <<SigmaParams(4)>>),
   Unweighted("sargan", <<ListParams(2, <<2, 4>>)>>),
   Unweighted("wasserstein", <<SigmaParams(8)>>),
   Unweighted("polynomial2", <<ListParams(1, <<1, -2, 3>>)>>)}

\* the kernels of the pre-weighted calls
WeightedKernels ==
  {[kernel |-> "linear", params |-> <<PolyParams(1, 0, 1)>>],
   [kernel |-> "gaussian", params |-> <<SigmaParams(2)>>]}

\* the cutoff distances of the pre-weighted calls
CutDistances == {1, 2}

\* the pre-weighted calls with the alchemy argument
WeightedChoices(alchemy) ==
  {KernelArgs(k.kernel, k.params, TRUE, alchemy, rc) :
     k \in WeightedKernels, rc \in CutDistances}

\* the raw matrices of the pre-weighted calls: the identity, and the matrix
\* [[0, 1], [2, 3]], which is not symmetric
WeightMatrices == {np_identity(2), CallerMatrix}

\* the atoms: hydrogen at the distance 0, helium at the distance 1
Atoms == {Atom(<<-1>>, 1, 0), Atom(<<2>>, 2, 1)}

\* the sets of n atoms, of n molecules, of n vectors; the rows of a
\* representation past natoms hold any atoms
AtomSets(n) == [1..n -> Atoms]

Molecules == [natoms : 0..(MaxAtoms + 1), rep : [1..MaxAtoms -> Atoms]]

MoleculeSets(n) == [1..n -> Molecules]

\* the molecules of the calls with the other kernels and the pre-weighted
\* calls: hydrogen and helium in turns, the one or the other first, one
\* atom real or all of them
SomeMolecules ==
  {[natoms |-> n,
    rep |-> [k \in 1..MaxAtoms |->
               IF k % 2 = first THEN Atom(<<-1>>, 1, 0) ELSE Atom(<<2>>, 2, 1)]] :
     n \in {1, MaxAtoms}, first \in {0, 1}}

SomeMoleculeSets(n) == [1..n -> SomeMolecules]

GlobalVecs == {<<-1, -1>>, <<-1, 2>>, <<2, -1>>, <<2, 2>>}

GlobalSets(n) == [1..n -> GlobalVecs]

\* second sets that differ from the first: other values, other feature
\* lengths
OtherAtomSets ==
  {<<Atom(<<2>>, 2, 1), Atom(<<-1>>, 1, 0), Atom(<<2>>, 2, 1)>>,
   <<Atom(<<1, 1>>, 1, 0)>>}

OtherMoleculeSets ==
  {<<[natoms |-> 1, rep |-> <<Atom(<<2>>, 2, 1), Atom(<<-1>>, 1, 0)>>]>>,
   <<[natoms |-> 1, rep |-> <<Atom(<<1, 1>>, 1, 0)>>]>>}

OtherGlobalSets == {<< <<2, 2>>, <<-1, 2>>, <<2, -1>> >>, << <<2>> >>}

\* a request: the level, the keyword arguments, the set X and the second
\* set Y of the two-set call
KernelRequest(level, o, X, Y) ==
  [level |-> level, kernel |-> o.kernel, params |-> o.params,
   weighted |-> o.weighted, alchemy |-> o.alchemy,
   cut_distance |-> o.cut_distance, X |-> X, Y |-> Y]

\* the keyword arguments of the request
KeywordArgs(a) ==
  KernelArgs(a.kernel, a.params, a.weighted, a.alchemy, a.cut_distance)

\* the second set is X itself or, for the small X, another set
SecondSets(X, others) == {X} \cup (IF Len(X) <= 1 THEN others ELSE {})

\* the requests with the keyword arguments o on the sets of atoms and the
\* molecules of SomeMolecules
AtomRequests(o) ==
  \/ \E n \in 0..MaxAtoms : \E X \in AtomSets(n) :
       args = KernelRequest("atomic", o, X, X)
  \/ \E n \in 1..MaxMols : \E X \in SomeMoleculeSets(n) :
       args = KernelRequest("local", o, X, X)

KernelInit ==
  /\ pc = "call"
  /\ \/ \E ch \in KernelChoices :
          \/ \E n \in 0..MaxAtoms : \E X \in AtomSets(n) :
               \E Y \in SecondSets(X, OtherAtomSets) :
                  args = KernelRequest("atomic", ch, X, Y)
          \/ \E n \in 1..MaxMols : \E X \in GlobalSets(n) :
               \E Y \in SecondSets(X, OtherGlobalSets) :
                  args = KernelRequest("global", ch, X, Y)
          \/ \E n \in 1..MaxMols : \E X \in MoleculeSets(n) :
               \E Y \in SecondSets(X, OtherMoleculeSets) :
                  args = KernelRequest("local", ch, X, Y)
     \/ \E ch \in MoreKernelChoices :
          \/ AtomRequests(ch)
          \/ \E n \in 1..MaxMols : \E X \in GlobalSets(n) :
               args = KernelRequest("global", ch, X, X)
     \/ \E mode \in {"off", "periodic-table", "Off"} :
          \E ch \in WeightedChoices(Str(mode)) : AtomRequests(ch)
     \/ \E m \in WeightMatrices :
          \E ch \in WeightedChoices(NdArray(m)) : AtomRequests(ch)
  /\ exc = "none"
  /\ ret = << >>
  /\ stdout = << >>
  /\ heap = << >>

\* the end of one of the two calls with the result r: an exception ends
\* the caller, a value is kept and the caller goes on to next
Answers(r, next) ==
  /\ exc' = r.exc
  /\ ret' = IF r.exc = "none" THEN Append(ret, r.val) ELSE ret
  /\ stdout' = stdout \o r.out
  /\ pc' = IF r.exc = "none" THEN next ELSE "done"
  /\ UNCHANGED <<args, heap>>

GetAtomicSymmetricKernels ==
  /\ pc = "call"
  /\ args.level = "atomic"
  /\ Answers(get_atomic_symmetric_kernels(args.X, KeywordArgs(args)), "symmetric")

GetAtomicKernels ==
  /\ pc = "symmetric"
  /\ args.level = "atomic"
  /\ Answers(get_atomic_kernels(args.X, args.Y, KeywordArgs(args)), "done")

GetGlobalSymmetricKernels ==
  /\ pc = "call"
  /\ args.level = "global"
  /\ Answers(get_global_symmetric_kernels(args.X, KeywordArgs(args)), "symmetric")

GetGlobalKernels ==
  /\ pc = "symmetric"
  /\ args.level = "global"
  /\ Answers(get_global_kernels(args.X, args.Y, KeywordArgs(args)), "done")

GetLocalSymmetricKernels ==
  /\ pc = "call"
  /\ args.level = "local"
  /\ Answers(get_local_symmetric_kernels(args.X, KeywordArgs(args)), "symmetric")

GetLocalKernels ==
  /\ pc = "symmetric"
  /\ args.level = "local"
  /\ Answers(get_local_kernels(args.X, args.Y, KeywordArgs(args)), "done")

KernelNext ==
  \/ GetAtomicSymmetricKernels
  \/ GetAtomicKernels
  \/ GetGlobalSymmetricKernels
  \/ GetGlobalKernels
  \/ GetLocalSymmetricKernels
  \/ GetLocalKernels

KernelSpec == KernelInit /\ [][KernelNext]_vars

(***************************************************************************)
(* Properties.                                                             *)
(***************************************************************************)
\* the call has returned a pair (doalchemy, pd)
Returned == pc = "done" /\ exc = "none"

\* the mode string of the call
Mode(s) == EqStr(args.alchemy, s)

MatrixModes == {"off", "periodic-table", "quantum-numbers", "custom"}

\* the call names one of the modes that build a matrix
BuildsMatrix == args.alchemy.kind = "str" /\ args.alchemy.s \in MatrixModes

\* the indices of a matrix of size emax
Indices == 0..(args.emax.v - 1)

PeriodicWidthsPositive == args.r_width > 0 /\ args.c_width > 0

QNumWidthsPositive ==
  args.n_width > 0 /\ args.m_width > 0 /\ args.l_width > 0 /\ args.s_width > 0

\* the float v lies in [0, 1]
InUnitInterval(v) ==
  \/ v.k = "int" /\ v.n \in {0, 1}
  \/ v.k = "exp" /\ v.n < 0
  \/ v.k = "sub"

\* d / width in units of 1/2000 (d an integer, width in thousandths dividing
\* 2000): the square of it is d^2 / (4 * width^2) in sixteenths
Scaled(d, width) ==
  LET m == IF d < 0 THEN -d ELSE d
      w == IF width < 0 THEN -width ELSE width
  IN  m * (2000 \div w)

\* exp(-(t1^2 + ... + tn^2) / 16), ts the sequence of the scaled distances;
\* a scaled distance of 110 or more alone makes the float 0.0
RECURSIVE SumSquares(_, _)
SumSquares(ts, k) == IF k = 0 THEN 0 ELSE SumSquares(ts, k - 1) + ts[k] * ts[k]

Gaussian(ts) ==
  IF \E k \in 1..Len(ts) : ts[k] >= 110 THEN Flt(0)
  ELSE np_exp16(- SumSquares(ts, Len(ts)))

\* C1: in the modes off, periodic-table, quantum-numbers and custom the
\* matrix get_alchemy returns is square of size emax x emax and symmetric,
\* M[i][j] = M[j][i] for all i, j.
C1_SquareSymmetric ==
  (Returned /\ BuildsMatrix) =>
     LET M == ret[1].pd
     IN  /\ M.shape = <<args.emax.v, args.emax.v>>
         /\ DOMAIN M.data = Indices
         /\ \A i \in Indices :
              /\ DOMAIN M.data[i] = Indices
              /\ \A j \in Indices : M.data[i][j] = M.data[j][i]

\* a quantum-numbers matrix over all elements with an off-diagonal entry
\* strictly between 0 and 1
C1_Witness ==
  /\ Returned
  /\ Mode("quantum-numbers")
  /\ args.emax = PyInt(LastElement)
  /\ QNumWidthsPositive
  /\ ret[1].pd.data[0][2].k = "exp"

\* C2: in the periodic-table and quantum-numbers modes, with positive
\* bandwidths, every diagonal entry is exactly 1.0 and every entry lies in
\* [0, 1].
C2_DiagonalOneEntriesInUnitInterval ==
  (/\ Returned
   /\ \/ Mode("periodic-table") /\ PeriodicWidthsPositive
      \/ Mode("quantum-numbers") /\ QNumWidthsPositive) =>
     \A i \in Indices :
        /\ ret[1].pd.data[i][i] = Flt(1)
        /\ \A j \in Indices : InUnitInterval(ret[1].pd.data[i][j])

\* a periodic-table matrix over all elements, with bandwidths 1.0 and 2.0,
\* that holds an entry strictly between 0 and 1
C2_Witness ==
  /\ Returned
  /\ Mode("periodic-table")
  /\ args.emax = PyInt(LastElement)
  /\ args.r_width = 1000 /\ args.c_width = 2000
  /\ ret[1].pd.data[0][1].k = "exp"
  /\ ret[1].pd.data[LastElement - 1][LastElement - 1] = Flt(1)

\* C3: get_alchemy("off", emax) returns the matrix that get_alchemy returns
\* for the identity matrix of size emax passed as a raw array.
C3_OffEqualsRawIdentity ==
  (Returned /\ Mode("off")) =>
     ret[1].pd = get_alchemy(NdArray(np_identity(args.emax.v)), args.emax,
                             args.r_width, args.c_width, args.elemental_vectors,
                             args.n_width, args.m_width, args.l_width,
                             args.s_width).val.pd

\* the "off" mode has answered for the default emax
C3_Witness ==
  /\ Returned
  /\ Mode("off")
  /\ args.emax = PyInt(DefaultEmax)
  /\ ret[1].pd.shape = <<DefaultEmax, DefaultEmax>>

\* the vector a custom mapping gives for nuclear charge z (z is a key of it)
HasKey(e_vec, z) == \E i \in 1..Len(e_vec) : e_vec[i].key = z

VectorOf(e_vec, z) == e_vec[CHOOSE i \in 1..Len(e_vec) : e_vec[i].key = z].vec

\* C4: in the periodic-table, quantum-numbers and custom modes the 0-based
\* entry (i, j) is the similarity of the elements with nuclear charge i+1
\* and j+1; in custom mode it is the dot product of the vectors supplied
\* for the nuclear charges i+1 and j+1.
C4_EntryIsSimilarityOfChargesPlusOne ==
  Returned =>
     \A i, j \in Indices :
        /\ Mode("periodic-table") =>
             ret[1].pd.data[i][j] =
                periodic_distance(i + 1, j + 1, args.r_width, args.c_width)
        /\ Mode("quantum-numbers") =>
             ret[1].pd.data[i][j] =
                QNum_distance(i + 1, j + 1, args.n_width, args.m_width,
                              args.l_width, args.s_width)
        /\ (/\ Mode("custom")
            /\ HasKey(args.elemental_vectors, i + 1)
            /\ HasKey(args.elemental_vectors, j + 1)) =>
             ret[1].pd.data[i][j] =
                Flt(DotUpTo(VectorOf(args.elemental_vectors, i + 1),
                            VectorOf(args.elemental_vectors, j + 1),
                            Len(VectorOf(args.elemental_vectors, i + 1))))

\* C5: in periodic-table mode, with positive bandwidths, the entry for the
\* elements (a, b) is exp(-(period(a) - period(b))^2 / (4 r_width^2)
\* - (group(a) - group(b))^2 / (4 c_width^2)): the period difference is
\* scaled by r_width alone and the group difference by c_width alone.
C5_PeriodicFormula ==
  (Returned /\ Mode("periodic-table") /\ PeriodicWidthsPositive) =>
     \A a, b \in 1..args.emax.v :
        ret[1].pd.data[a - 1][b - 1] =
           Gaussian(<<Scaled(PTP[a][1] - PTP[b][1], args.r_width),
                      Scaled(PTP[a][2] - PTP[b][2], args.c_width)>>)

\* bandwidths 2.0 and 1.0: H and He (same period, 7 groups apart) get
\* exp(-49/4), H and Li (one period apart) get exp(-1/16)
C5_Witness ==
  /\ Returned
  /\ Mode("periodic-table")
  /\ args.emax = PyInt(LastElement)
  /\ args.r_width = 2000 /\ args.c_width = 1000
  /\ ret[1].pd.data[0][1] = [k |-> "exp", n |-> -196]
  /\ ret[1].pd.data[0][2] = [k |-> "exp", n |-> -1]

\* C6: in quantum-numbers mode, with positive bandwidths, the entry for the
\* elements (a, b) is the product of the four factors
\* exp(-(d_k)^2 / (4 w_k^2)), d_k the difference in coordinate k of QtNm,
\* w_k = n_width, m_width, l_width, s_width for k = 1, 2, 3, 4.
C6_QuantumNumbersFormula ==
  (Returned /\ Mode("quantum-numbers") /\ QNumWidthsPositive) =>
     \A a, b \in 1..args.emax.v :
        ret[1].pd.data[a - 1][b - 1] =
           Gaussian(<<Scaled(QtNm[a][1] - QtNm[b][1], args.n_width),
                      Scaled(QtNm[a][2] - QtNm[b][2], args.m_width),
                      Scaled(QtNm[a][3] - QtNm[b][3], args.l_width),
                      Scaled((QtNm[a][4] - QtNm[b][4]) \div 2, args.s_width)>>)

\* m_width 2.0, the other bandwidths 1.0: B and C differ by 1 in the second
\* coordinate alone and get exp(-1/16); Be and B differ by 1 in the second
\* and third coordinate and by 1 in spin and get exp(-(1 + 4 + 4)/16)
C6_Witness ==
  /\ Returned
  /\ Mode("quantum-numbers")
  /\ args.emax = PyInt(LastElement)
  /\ args.n_width = 1000 /\ args.m_width = 2000
  /\ args.l_width = 1000 /\ args.s_width = 1000
  /\ ret[1].pd.data[4][5] = [k |-> "exp", n |-> -1]
  /\ ret[1].pd.data[3][4] = [k |-> "exp", n |-> -9]

\* two of the supplied vectors have different lengths
UnequalLengths(e_vec) ==
  \E i, j \in 1..Len(e_vec) : Len(e_vec[i].vec) # Len(e_vec[j].vec)

AllKeysInt(e_vec) == \A i \in 1..Len(e_vec) : e_vec[i].isint

\* C7: in custom mode, when two of the supplied vectors have different
\* lengths the call ends with the assertion error of the length check (of
\* the key check, when a key is not an int), whatever emax is: the check
\* comes before the matrix is allocated, and no matrix is returned.
C7_UnequalLengthsRaise ==
  (pc = "done" /\ Mode("custom") /\ UnequalLengths(args.elemental_vectors)) =>
     /\ ret = << >>
     /\ exc = IF AllKeysInt(args.elemental_vectors)
                 THEN "AssertionError: Error! Unequal number of dimensions"
                 ELSE "AssertionError: Error! Keys need to be int"

\* vectors of lengths 2 and 1 (which numpy would broadcast) with an emax
\* that np.zeros refuses: the length check has spoken first
C7_Witness ==
  /\ pc = "done"
  /\ Mode("custom")
  /\ args.emax = PyInt(-1)
  /\ Len(args.elemental_vectors) = 2
  /\ args.elemental_vectors[1].vec = <<1, 2>>
  /\ args.elemental_vectors[2].vec = <<1>>
  /\ exc = "AssertionError: Error! Unequal number of dimensions"
  /\ ret = << >>

\* C8: in custom mode, for any mapping over keys in 1..emax whose vectors
\* share one length (the empty mapping too), the call succeeds and the row
\* and the column of every element the mapping does not specify are 0.
C8_UnspecifiedElementsAreZero ==
  (/\ pc = "done"
   /\ Mode("custom")
   /\ ~ args.emax.half /\ args.emax.v >= 1
   /\ AllKeysInt(args.elemental_vectors)
   /\ ~ UnequalLengths(args.elemental_vectors)
   /\ \A i \in 1..Len(args.elemental_vectors) :
         args.elemental_vectors[i].key \in 1..args.emax.v) =>
     /\ Returned
     /\ \A z \in 1..args.emax.v :
           ~ HasKey(args.elemental_vectors, z) =>
              \A j \in Indices :
                 /\ ret[1].pd.data[z - 1][j] = Flt(0)
                 /\ ret[1].pd.data[j][z - 1] = Flt(0)

\* C9: a mode that is neither one of the four mode strings nor a raw array
\* ends the call with exit(1) after the error has been printed, one line
\* with the message and the value of the mode; nothing is returned.
C9_UnknownModeExits ==
  (pc = "done" /\ args.alchemy.kind # "ndarray" /\ ~ BuildsMatrix) =>
     /\ exc = "SystemExit"
     /\ ret = << >>
     /\ Len(stdout) = 1
     /\ SubSeq(stdout[1], 1, 48) = "QML ERROR: Unknown alchemical method specified: "
     /\ args.alchemy.kind = "str" =>
           stdout[1] = "QML ERROR: Unknown alchemical method specified: "
                         \o args.alchemy.s

\* the misspelt mode "Off" has ended in exit(1)
C9_Witness ==
  /\ pc = "done"
  /\ args.alchemy = Str("Off")
  /\ exc = "SystemExit"
  /\ ret = << >>
  /\ stdout = <<"QML ERROR: Unknown alchemical method specified: Off">>

\* C10: an emax that is not a positive integer, and a bandwidth of the mode
\* that is not positive, is rejected: the call raises and returns no matrix.
C10_InvalidEmaxOrWidthRejected ==
  (/\ pc = "done"
   /\ \/ BuildsMatrix /\ (args.emax.half \/ args.emax.v <= 0)
      \/ Mode("periodic-table") /\ ~ PeriodicWidthsPositive
      \/ Mode("quantum-numbers") /\ ~ QNumWidthsPositive) =>
     /\ exc # "none"
     /\ ret = << >>

\* C11: when alchemy is a raw array, get_alchemy returns that array as it
\* is, shape and entries, whatever emax, the bandwidths and
\* elemental_vectors are (valid or not); nothing is printed or raised.
C11_RawMatrixReturnedVerbatim ==
  (pc = "done" /\ args.alchemy.kind = "ndarray") =>
     /\ Returned
     /\ ret[1].pd = args.alchemy.m
     /\ ret[1].pd.shape = args.alchemy.m.shape
     /\ stdout = << >>

\* a raw array that is neither square nor of size emax, passed with a
\* negative emax, bandwidths 0 and vectors of unequal lengths, has come back
C11_Witness ==
  /\ Returned
  /\ args.alchemy.kind = "ndarray"
  /\ args.alchemy.m.shape = <<1, 2>>
  /\ args.emax = PyInt(-1)
  /\ args.r_width = 0 /\ args.n_width = 0
  /\ UnequalLengths(args.elemental_vectors)
  /\ ret[1].pd.shape = <<1, 2>>
  /\ ret[1].pd.data[0][1] = Flt(2)

\* C12: get_alchemy("periodic-table", emax, r_width, c_width) returns the
\* pair (flag and matrix) that get_alchemy returns to a caller that passes
\* the matrix gen_pd(emax, r_width, c_width) as a raw array (and leaves
\* every other argument at its default).
C12_PeriodicEqualsRawGenerated ==
  (Returned /\ Mode("periodic-table")) =>
     LET generated == gen_pd(args.emax, args.r_width, args.c_width)
         raw == get_alchemy(NdArray(generated.val), PyInt(DefaultEmax),
                            DefaultWidth, DefaultWidth, << >>, DefaultWidth,
                            DefaultWidth, DefaultWidth, DefaultWidth)
     IN  /\ generated.exc = "none"
         /\ raw.exc = "none"
         /\ raw.val.doalchemy = ret[1].doalchemy
         /\ raw.val.pd = ret[1].pd

\* the periodic-table mode has answered for all elements with two different
\* bandwidths: the weighting is on and H-He differs from H-Li
C12_Witness ==
  /\ Returned
  /\ Mode("periodic-table")
  /\ args.emax = PyInt(LastElement)
  /\ args.r_width = 1000 /\ args.c_width = 2000
  /\ ret[1].doalchemy = TRUE
  /\ ret[1].pd.data[0][1] # ret[1].pd.data[0][2]
  /\ ret[1].pd.data[0][2].k = "exp"

\* emax is an integer within the tables
EmaxInTables == ~ args.emax.half /\ args.emax.v \in 1..LastElement

\* C15: both tables have an entry for every atomic number 1..118: for every
\* emax in 1..118 the periodic-table and the quantum-numbers mode (with
\* non-zero bandwidths) return an emax x emax matrix, no lookup failing.
C15_TablesCoverAllElements ==
  /\ \A z \in 1..LastElement : z \in PTP_keys /\ z \in QtNm_keys
  /\ (/\ pc = "done"
      /\ EmaxInTables
      /\ \/ Mode("periodic-table") /\ args.r_width # 0 /\ args.c_width # 0
         \/ Mode("quantum-numbers") /\ args.n_width # 0 /\ args.m_width # 0
                                    /\ args.l_width # 0 /\ args.s_width # 0) =>
        /\ Returned
        /\ exc # "KeyError"
        /\ ret[1].pd.shape = <<args.emax.v, args.emax.v>>

\* the periodic-table mode has answered for emax = 118 and the entry of the
\* last element with itself is there
C15_Witness ==
  /\ Returned
  /\ Mode("periodic-table")
  /\ args.emax = PyInt(LastElement)
  /\ ret[1].pd.shape = <<LastElement, LastElement>>
  /\ ret[1].pd.data[LastElement - 1][LastElement - 1] = Flt(1)

\* C16: in periodic-table mode, for every emax in 1..118 and positive
\* bandwidths, two distinct elements a # b of 1..emax have different
\* (period, group) positions and an entry strictly below 1; with the
\* default bandwidths 0.001 the matrix is the identity.
C16_PeriodicNearDiscrete ==
  (Returned /\ Mode("periodic-table") /\ EmaxInTables /\ PeriodicWidthsPositive) =>
     /\ \A a, b \in 1..args.emax.v :
           a # b => /\ PTP[a] # PTP[b]
                    /\ ret[1].pd.data[a - 1][b - 1] # Flt(1)
     /\ (args.r_width = DefaultWidth /\ args.c_width = DefaultWidth) =>
           ret[1].pd = np_identity(args.emax.v)

\* C17: in quantum-numbers mode, for every emax in 1..118 and positive
\* bandwidths, two distinct elements a # b of 1..emax have 4-tuples that
\* differ in a coordinate and an entry strictly below 1; with the default
\* bandwidths 0.001 the matrix is the identity.
C17_QuantumNumbersNearDiscrete ==
  (Returned /\ Mode("quantum-numbers") /\ EmaxInTables /\ QNumWidthsPositive) =>
     /\ \A a, b \in 1..args.emax.v :
           a # b => /\ QtNm[a] # QtNm[b]
                    /\ ret[1].pd.data[a - 1][b - 1] # Flt(1)
     /\ (/\ args.n_width = DefaultWidth /\ args.m_width = DefaultWidth
         /\ args.l_width = DefaultWidth /\ args.s_width = DefaultWidth) =>
           ret[1].pd = np_identity(args.emax.v)

\* the call of the function fn has ended
Done(fn) == pc = "done" /\ args.fn = fn

\* C18: for integers n_samples >= 1 and batch_size >= 1,
\* get_batch_size(batch_size, n_samples) returns an integer r with
\* 1 <= r <= batch_size and r <= n_samples; a batch_size larger than
\* n_samples is clipped to n_samples.
C18_BatchSizeWithinRequest ==
  (Done("get_batch_size") /\ args.batch_size >= 1 /\ args.n_samples >= 1) =>
     /\ Returned
     /\ ret[1] \in Int
     /\ 1 <= ret[1]
     /\ ret[1] <= args.batch_size
     /\ ret[1] <= args.n_samples
     /\ args.batch_size > args.n_samples => ret[1] = args.n_samples

\* 12 samples in batches of 5 are 3 batches, so the batch size becomes 4
C18_Witness ==
  /\ Done("get_batch_size")
  /\ args.batch_size = 5 /\ args.n_samples = 12
  /\ Returned
  /\ ret = <<4>>
  /\ stdout = << >>

\* r is the smallest integer that is >= a / b (b # 0)
IsCeiling(r, a, b) ==
  IF b > 0 THEN r * b >= a /\ (r - 1) * b < a
           ELSE r * b <= a /\ (r - 1) * b > a

\* C19: for integers a and b # 0 of either sign, ceil(a, b) returns the
\* smallest integer that is >= a / b.
C19_CeilRoundsUp ==
  (Done("ceil") /\ args.b # 0) =>
     /\ Returned
     /\ ret[1] \in Int
     /\ IsCeiling(ret[1], args.a, args.b)

\* 7 / -2 = -3.5 has been rounded up to -3
C19_Witness ==
  /\ Done("ceil")
  /\ args.a = 7 /\ args.b = -2
  /\ Returned
  /\ ret = <<-3>>

\* the place of the pair (i, j), i <= j, in the row-major order of the pairs
\* of a list of length n
PlaceOf(i, j, n) == (i - 1) * n - ((i - 1) * (i - 2)) \div 2 + (j - i + 1)

\* the result holds the n(n+1)/2 pairs [x[i], x[j]], i <= j, in row-major
\* order of (i, j)
AllPairsRowMajor ==
  LET x == args.x
      n == Len(x)
      pairs == ret[1]
  IN  /\ Len(pairs) = (n * (n + 1)) \div 2
      /\ \A i \in 1..n : \A j \in i..n :
            pairs[PlaceOf(i, j, n)] = <<x[i], x[j]>>

\* no pair of values is twice in the result
NoPairTwice ==
  \A p, q \in 1..Len(ret[1]) : p # q => ret[1][p] # ret[1][q]

\* C20 as stated: for every list x of length n, get_pairs(x) returns
\* exactly the n(n+1)/2 pairs [x[i], x[j]] with i <= j in row-major order
\* of (i, j), and no pair of values appears twice in the result.
C20_AllPairsNoneTwice ==
  Done("get_pairs") => (Returned /\ AllPairsRowMajor /\ NoPairTwice)

\* the values of the list are pairwise distinct
DistinctValues(x) == \A i, j \in 1..Len(x) : i # j => x[i] # x[j]

\* C20 as amended: for every list x of length n, get_pairs(x) returns
\* exactly the n(n+1)/2 pairs [x[i], x[j]] with i <= j in row-major order
\* of (i, j); no pair of values appears twice in the result when the values
\* of x are pairwise distinct.
C20_AllPairsRowMajor ==
  Done("get_pairs") =>
     /\ Returned
     /\ AllPairsRowMajor
     /\ DistinctValues(args.x) => NoPairTwice

\* the example of the docstring: [1, 2, 3] has given its six pairs
C20_Witness ==
  /\ Done("get_pairs")
  /\ args.x = <<1, 2, 3>>
  /\ Returned
  /\ ret[1] = << <<1, 1>>, <<1, 2>>, <<1, 3>>, <<2, 2>>, <<2, 3>>, <<3, 3>> >>

AtomCharges == {a.charge : a \in Atoms}

\* the call does not pre-weight by element similarity (the global level
\* never does), or the similarity matrix has equal entries (a, b) and
\* (b, a) for the nuclear charges of the atoms
SimilaritySymmetric ==
  \/ args.level = "global"
  \/ ~ args.weighted
  \/ /\ similarity(KeywordArgs(args)).exc = "none"
     /\ \A a \in AtomCharges : \A b \in AtomCharges :
           similarity(KeywordArgs(args)).val.pd.data[a - 1][b - 1]
             = similarity(KeywordArgs(args)).val.pd.data[b - 1][a - 1]

Truncated(x) == SubSeq(x.rep, 1, x.natoms)

\* the sum of all entries of a matrix
SumOfEntries(G) == BlockSum(G, Len(G), IF Len(G) = 0 THEN 0 ELSE Len(G[1]))

\* the entry (i, j) of the q-th matrix of the stack K of local kernels
\* between the sets X and Y is the sum of the atomic kernel of the
\* truncated representations of the two molecules
SumOfAtomicKernel(K, X, Y, q, i, j) ==
  LET atomic == get_atomic_kernels(Truncated(X[i]), Truncated(Y[j]),
                                   [KeywordArgs(args) EXCEPT
                                      !.params = <<args.params[q]>>])
  IN  /\ atomic.exc = "none"
      /\ K[q][i][j] = SumOfEntries(atomic.val[1])

\* so is every entry of the stack
SumsOfAtomicKernels(K, X, Y) ==
  \A q \in 1..Len(args.params) :
     \A i \in 1..Len(X) : \A j \in 1..Len(Y) :
        SumOfAtomicKernel(K, X, Y, q, i, j)

\* so is every entry on or above the diagonal
UpperSumsOfAtomicKernels(K, X) ==
  \A q \in 1..Len(args.params) :
     \A i \in 1..Len(X) : \A j \in i..Len(X) :
        SumOfAtomicKernel(K, X, X, q, i, j)

Lanthanides == 57..71

Actinides == 89..103

FBlock == Lanthanides \cup Actinides

\* C22: in the periodic-table position table every lanthanide (57..71) is
\* in period 6 and every actinide (89..103) in period 7, each in a group
\* column above 18, and no f-block element has the position of a
\* main-group or d-block element: the matrix of the periodic-table mode
\* has no entry 1 between an f-block element and another one.
C22_FBlockInExtendedColumns ==
  /\ \A z \in Lanthanides : PTP[z][1] = 6 /\ PTP[z][2] > 18
  /\ \A z \in Actinides : PTP[z][1] = 7 /\ PTP[z][2] > 18
  /\ \A z \in FBlock : \A y \in (1..LastElement) \ FBlock : PTP[z] # PTP[y]
  /\ (Returned /\ Mode("periodic-table") /\ EmaxInTables /\ PeriodicWidthsPositive) =>
        \A z \in FBlock \cap (1..args.emax.v) :
           \A y \in (1..args.emax.v) \ FBlock :
              ret[1].pd.data[z - 1][y - 1] # Flt(1)

\* the keys a dict literal writes more than once
DuplicateKeys(items) ==
  {items[i][1] : i \in {i \in 1..Len(items) :
                          \E j \in 1..Len(items) : j # i /\ items[j][1] = items[i][1]}}

\* the keys written twice in the two literals
QtNmDuplicateKeys == DuplicateKeys(QtNm_items)

PTPDuplicateKeys == DuplicateKeys(PTP_items)

\* C23 as stated: the literal of the quantum-number table QtNm, which the
\* quantum-numbers mode reads, writes one of the keys 101, 102 twice, so
\* that two entries collide and the later one takes effect.
C23_QtNmDuplicateKey ==
  Mode("quantum-numbers") => \E k \in {101, 102} : k \in QtNmDuplicateKeys

\* the literal of PTP writes 101: [7,31] and after it 101: [7,32], and the
\* table holds the later one
PTPLaterItemKept ==
  \E i, j \in 1..Len(PTP_items) :
     /\ i < j
     /\ PTP_items[i] = <<101, <<7, 31>>>>
     /\ PTP_items[j] = <<101, <<7, 32>>>>
     /\ PTP[101] = PTP_items[j][2]

\* C23 as amended: the literal of the periodic-table position table PTP
\* (not the one of QtNm, whose 118 keys are written once each) writes the
\* key 101 twice, [7,31] and then [7,32]; the later entry takes effect, so
\* that 101 stands two columns after 100 in the matrix of the
\* periodic-table mode.
C23_PTPDuplicateKey ==
  /\ QtNmDuplicateKeys = {}
  /\ PTPDuplicateKeys = {101}
  /\ PTPLaterItemKept
  /\ (/\ Returned /\ Mode("periodic-table") /\ PeriodicWidthsPositive
      /\ EmaxInTables /\ args.emax.v >= 101) =>
        ret[1].pd.data[100][99] = Gaussian(<<0, Scaled(2, args.c_width)>>)

\* the periodic-table mode has answered for all elements with c_width 2.0:
\* the entry of 101 and 100 is exp(-4/16), two columns apart
C23_Witness ==
  /\ Returned
  /\ Mode("periodic-table")
  /\ args.emax = PyInt(LastElement)
  /\ args.r_width = 1000 /\ args.c_width = 2000
  /\ ret[1].pd.data[100][99] = [k |-> "exp", n |-> -4]

\* C29: the flag get_alchemy returns first is False exactly when the mode
\* is the string "off", and True for the periodic-table, quantum-numbers
\* and custom modes and for a raw array, whatever the matrix: a raw
\* identity matrix gets True, "off" gets False.
C29_FlagFalseOnlyForOff ==
  Returned =>
     /\ ret[1].doalchemy \in BOOLEAN
     /\ ret[1].doalchemy = FALSE <=> Mode("off")
     /\ (args.alchemy.kind = "ndarray" \/ Mode("periodic-table")
         \/ Mode("quantum-numbers") \/ Mode("custom")) => ret[1].doalchemy = TRUE

\* the identity of size 100 passed as a raw array has come back with the
\* flag True
C29_Witness ==
  /\ Returned
  /\ args.alchemy.kind = "ndarray"
  /\ args.alchemy.m = np_identity(DefaultEmax)
  /\ ret[1].pd = np_identity(DefaultEmax)
  /\ ret[1].doalchemy = TRUE

\* C30: in custom mode (integer emax >= 1, integer keys, vectors of one
\* length) every key k with 1 <= k <= emax is accepted, and a mapping with
\* a key outside 1..emax (0, a negative integer, a value above emax) is
\* rejected with an error and no matrix returned.
C30_CustomKeysWithinRange ==
  (/\ pc = "done"
   /\ Mode("custom")
   /\ ~ args.emax.half /\ args.emax.v >= 1
   /\ Len(args.elemental_vectors) >= 1
   /\ AllKeysInt(args.elemental_vectors)
   /\ ~ UnequalLengths(args.elemental_vectors)) =>
     IF \A i \in 1..Len(args.elemental_vectors) :
           args.elemental_vectors[i].key \in 1..args.emax.v
        THEN Returned
        ELSE exc # "none" /\ ret = << >>

\* the number of batches of size r that hold n samples: the least k with
\* k * r >= n
NumBatches(n, r) == CHOOSE k \in 1..n : IsCeiling(k, n, r)

\* C27: for integers 1 <= batch_size <= n_samples the size r returned by
\* get_batch_size keeps the number of batches k of the requested size, is
\* the smallest size with k batches, and leaves a last batch
\* n_samples - (k-1)*r that is non-empty and smaller than r by less than k.
C27_BatchSizeBalanced ==
  (/\ Done("get_batch_size")
   /\ 1 <= args.batch_size /\ args.batch_size <= args.n_samples) =>
     /\ Returned
     /\ ret[1] \in 1..args.n_samples
     /\ LET n == args.n_samples
            r == ret[1]
            k == NumBatches(n, args.batch_size)
            last == n - (k - 1) * r
        IN  /\ NumBatches(n, r) = k
            /\ \A q \in 1..(r - 1) : NumBatches(n, q) # k
            /\ last >= 1
            /\ r - last < k

\* 11 samples in batches of 5 are 3 batches: the size has become 4, the
\* smallest with 3 batches, and the last batch holds 3 samples
C27_Witness ==
  /\ Done("get_batch_size")
  /\ args.batch_size = 5 /\ args.n_samples = 11
  /\ ret = <<4>>
  /\ NumBatches(11, 4) = 3 /\ NumBatches(11, 3) = 4
  /\ 11 - 2 * ret[1] = 3

\* C21: check_y raises InputError for an input that is not array-like or
\* not one-dimensional (is_1d_array: one axis, or two with a 1 in the
\* shape), and for every other input, of n_samples values, returns an
\* array of shape (n_samples, 1) with these values.
C21_CheckYColumn ==
  Done("check_y") =>
     IF is_1d_array(args.y)
        THEN /\ Returned
             /\ ret[1].shape = <<Size(args.y.shape), 1>>
             /\ ret[1].data = args.y.data
        ELSE /\ exc = "InputError: y should be array like."
             /\ ret = << >>

\* the exception is an InputError, whatever its message
IsInputError(e) == Len(e) >= 10 /\ SubSeq(e, 1, 10) = "InputError"

\* C25: for any x and any combination of y, dy and classes being None or
\* arrays, check_sizes returns None or raises InputError, and no other
\* exception; with x alone (y, dy and classes None) it raises
\* InputError("Only x is not none.").
C25_CheckSizesOnlyInputError ==
  Done("check_sizes") =>
     /\ \/ Returned /\ ret = <<None>>
        \/ IsInputError(exc) /\ ret = << >>
     /\ (IsNone(args.y) /\ IsNone(args.dy) /\ IsNone(args.classes)) =>
           exc = "InputError: Only x is not none."

\* every element of the array is an integer >= 0: an int, or a float
\* without a fraction
HoldsNonNegativeIntegers(c) ==
  \A q \in 1..Len(c.data) :
     /\ c.data[q].t \in {"int", "float"}
     /\ c.data[q].v >= 0
     /\ c.data[q].t = "float" => c.data[q].v % 2 = 0

\* C26: check_classes returns None for None; otherwise it returns the array
\* only if classes is array-like, non-empty, holds only non-negative
\* integer values and has exactly 2 dimensions, and raises InputError in
\* every other case, testing array-likeness first, integer content second
\* and dimensionality last.
C26_CheckClassesOrder ==
  Done("check_classes") =>
     LET c == args.classes
     IN  IF IsNone(c) THEN Returned /\ ret = <<None>>
         ELSE IF c.type \notin {"tuple", "list", "ndarray"}
            THEN exc = "InputError: classes should be array like." /\ ret = << >>
         ELSE IF Size(c.shape) = 0 \/ ~ HoldsNonNegativeIntegers(c)
            THEN exc = "InputError: classes should be an array of ints." /\ ret = << >>
         ELSE IF Len(c.shape) # 2
            THEN /\ exc = "InputError: classes should be an array with 2 dimensions. Got "
                            \o Numeral(Len(c.shape))
                 /\ ret = << >>
         ELSE /\ Returned
              /\ ret[1].type = "ndarray"
              /\ ret[1].shape = c.shape /\ ret[1].data = c.data
              /\ ret[1].dtype = c.dtype

\* the step of a session in which get_alchemy runs
CallStep == pc = "call" /\ pc' = "done"

\* what the call a returns when handed the mapping d and the array m in a
\* process that has just imported the module
FirstCall(a, m, d) ==
  get_alchemy(IF a.mode = "raw" THEN NdArray(m) ELSE Str(a.mode),
              PyInt(a.emax), 1000, 1000, d, 1000, 1000, 1000, 1000)

\* C24: no state is carried across calls.  After any sequence of calls in
\* any modes the lookup tables PTP, QtNm, ELEMENT_NAME and NUCLEAR_CHARGE
\* and the shared default elemental_vectors mapping are as the import left
\* them, a call changes neither the caller's mapping nor the caller's
\* array, and what a call returns or raises is what the same call on the
\* same arguments gives as the first call of a process.
C24_NoStateAcrossCalls ==
  /\ [](/\ heap.PTP = PTP /\ heap.QtNm = QtNm
        /\ heap.ELEMENT_NAME = ELEMENT_NAME
        /\ heap.NUCLEAR_CHARGE = NUCLEAR_CHARGE
        /\ heap.default_vectors = << >>)
  /\ [][CallStep =>
          /\ heap'.vectors = heap.vectors
          /\ heap'.matrix = heap.matrix
          /\ LET r == FirstCall(args, heap.matrix,
                                IF args.mapping = "vectors" THEN heap.vectors
                                ELSE << >>)
             IN  /\ exc' = r.exc
                 /\ r.exc = "none" =>
                      /\ ret' # << >>
                      /\ ret'[1].doalchemy = r.val.doalchemy
                      /\ heap'[ret'[1].pd] = r.val.pd
                 /\ r.exc # "none" => ret' = << >>]_vars

\* the last call of a session, custom mode without a mapping, has found
\* the default mapping empty
C24_Witness ==
  /\ pc = "done"
  /\ args.seq = MaxCalls
  /\ args.mode = "custom" /\ args.mapping = "default_vectors"
  /\ exc = "AssertionError: Error! Unequal number of dimensions"
  /\ heap.vectors = CallerVectors
  /\ heap.result # NoArray

\* C28: the matrix get_alchemy returns is an independent value in every
\* mode: an in-place change the caller makes to its array or to a vector
\* of its mapping after the call does not change the returned matrix, and
\* an in-place change to the returned matrix changes neither of them.
C28_ReturnedMatrixIndependent ==
  [][/\ (WriteInput /\ ret # << >>) => heap'[ret[1].pd] = heap[ret[1].pd]
     /\ WriteResult => heap'.matrix = heap.matrix /\ heap'.vectors = heap.vectors]_vars
====
